---- MODULE Spec2Model ----
(***************************************************************************)
(* Game-session state machine and round-resolution engine of "Stuff        *)
(* Happens": the route handlers of server/routes.mjs over the data-access  *)
(* functions of server/dao-games.mjs and server/dao-cards.mjs, on the      *)
(* tables created by server/db.mjs, with the middleware isLoggedIn of      *)
(* server/auth.mjs, the demo routes, the history route, the page           *)
(* PlayGamePage of the client (its state, its handlers and its timer) and  *)
(* the transaction of the one database connection the handlers share.      *)
(*                                                                         *)
(* bad_luck_index is a REAL column with a UNIQUE constraint; only the      *)
(* order of the values is ever used, so they are modelled as distinct      *)
(* integers.  Timestamps are modelled by the number of the write.          *)
(***************************************************************************)
EXTENDS Integers, Sequences, FiniteSets, Bags, TLC

\* ------------------------------------------------------------------ bounds
NumCards == 6
NumCardsLong == 9
MaxGames == 1
MaxRound == 1
MaxForgedLen == 0
MaxJudgeLen == 3
MaxJudgeIdx == 3
MaxInFlight == 2
MaxDemoLen == 1
NumCardsSmall == 4
MaxHistGames == 3
NumCardsTimeout == 8
RoundSeconds == 2
MaxPending == 3
MaxDemoGuesses == 2
NumCardsWon == 10
MaxTxGames == 1

\* ------------------------------------------------------- program constants
InitialCardCount == 3
WinThreshold == 3
LoseThreshold == 3
NumUsers == 2

VARIABLES
    cards,        \* table cards: set of rows [id, bad_luck_index]
    games,        \* table games: id -> [user_id, end_time, outcome, cards_collected]
    game_cards,   \* table game_cards: set of rows
    nextGameId,   \* AUTOINCREMENT counter of table games
    resp,         \* the response sent by the last completed request
    reqs,         \* bag of the handlers suspended at an await (interleaved runs)
    judge,        \* inputs and verdict of the round judge taken alone
    call,         \* the last request made: its route and its arguments
    client,       \* state of the page PlayGamePage of the player's browser
    twin,         \* a second run of the server, on another catalog
    conn          \* the transaction open on the shared database connection

vars ==
    <<cards, games, game_cards, nextGameId, resp, reqs, judge, call, client, twin,
      conn>>

\* The variables that record the caller's side and the second run, and the
\* transaction of the connection, which a handler run in one piece leaves as
\* it found it.
callers == <<call, client, twin, conn>>

Min(a, b) == IF a < b THEN a ELSE b
Max(a, b) == IF a > b THEN a ELSE b

Users == 1..NumUsers

\* ----------------------------------------------------------- card catalog
\* A catalog of n cards with pairwise distinct indices whose order differs
\* from the order of the identifiers; the name and the image of a card, both
\* UNIQUE, are modelled by its number.
BadLuckIndexOf(c) == IF c % 2 = 1 THEN c + 1 ELSE c - 1
Catalog(n) ==
    { [id |-> c, name |-> c, image |-> c, bad_luck_index |-> BadLuckIndexOf(c)]
      : c \in 1..n }

CardIds == { row.id : row \in cards }

\* SELECT ... FROM cards WHERE id = ?   (the empty set stands for undefined)
getCardByIdAnyRow(cardId) == cards

getCardById(cardId) == { row \in cards : row.id = cardId }

Idx(cardId) == (CHOOSE row \in cards : row.id = cardId).bad_luck_index

\* The row SELECT id, name, image, bad_luck_index gives for a card id.
CardRow(cardId) == CHOOSE row \in cards : row.id = cardId

\* The set of injective sequences of length n over S.
InjSeqs(S, n) ==
    { s \in [1..n -> S] : \A i, j \in 1..n : i # j => s[i] # s[j] }

\* SELECT ... FROM cards [WHERE id NOT IN (...)] ORDER BY RANDOM() LIMIT ?
\* Every result the random order can give: the sequences of card ids.
getRandomCardsUnfiltered(limit, excludeCardIds) ==
    InjSeqs(CardIds, Min(limit, Cardinality(CardIds)))

getRandomCards(limit, excludeCardIds) ==
    LET eligible == CardIds \ excludeCardIds
    IN  InjSeqs(eligible, Min(limit, Cardinality(eligible)))

\* ------------------------------------------------------------ round judge
\* Array.prototype.splice(start, 0, item) on a copy of the array.
Splice(hand, start, item) ==
    LET len == Len(hand)
        s   == IF start < 0 THEN Max(len + start, 0) ELSE Min(start, len)
    IN  SubSeq(hand, 1, s) \o <<item>> \o SubSeq(hand, s + 1, len)

\* The for loop over adjacent pairs, from (1-based) position i, with its break.
RECURSIVE SortedLoop(_, _)
SortedLoopStrict(tempHand, i) ==
    IF i >= Len(tempHand) THEN TRUE
    ELSE IF tempHand[i] >= tempHand[i + 1] THEN FALSE
    ELSE SortedLoop(tempHand, i + 1)

SortedLoop(tempHand, i) ==
    IF i >= Len(tempHand) THEN TRUE
    ELSE IF tempHand[i] > tempHand[i + 1] THEN FALSE
    ELSE SortedLoop(tempHand, i + 1)

\* isCorrect of the guess handlers: playerHand is the sequence of the
\* bad_luck_index values the client sent, newIdx the index fetched by id.
JudgeGuess(playerHand, placementIndex, newIdx) ==
    SortedLoop(Splice(playerHand, placementIndex, newIdx), 1)

\* --------------------------------------------------------------- tables
\* SQL NULL in the nullable INTEGER/TEXT columns of game_cards.
NULL == -1

\* The rows of game_cards of one game.
RowsOf(gc, gameId) == { row \in gc : row.game_id = gameId }

\* ORDER BY c.bad_luck_index ASC over a set of joined rows.
RECURSIVE OrderByIndex(_)
OrderByIndex(rows) ==
    IF rows = {} THEN <<>>
    ELSE LET m == CHOOSE x \in rows :
                      \A y \in rows : x.bad_luck_index <= y.bad_luck_index
         IN  <<m>> \o OrderByIndex(rows \ {m})

\* initialCards.sort((a, b) => a.bad_luck_index - b.bad_luck_index) on a
\* sequence of card ids: insertion of each element into the sorted prefix.
RECURSIVE SortByIndex(_)
InsertSorted(sorted, c) ==
    LET k == Cardinality({ i \in 1..Len(sorted) : Idx(sorted[i]) <= Idx(c) })
    IN  SubSeq(sorted, 1, k) \o <<c>> \o SubSeq(sorted, k + 1, Len(sorted))

SortByIndexOmitted(cardSeq) == cardSeq

SortByIndex(cardSeq) ==
    IF cardSeq = <<>> THEN <<>>
    ELSE InsertSorted(SortByIndex(SubSeq(cardSeq, 1, Len(cardSeq) - 1)),
                      cardSeq[Len(cardSeq)])

\* ------------------------------------------------------------ dao-games
\* The state of the database a transaction started from, and ROLLBACK.
Db(gs, gc, nid) == [games |-> gs, game_cards |-> gc, nextGameId |-> nid]

RollbackOmitted(snapshot, written) == written

Rollback(snapshot, written) == snapshot

\* INSERT INTO games (...) VALUES (userId, startTime, '', '', 0)
InsertGame(db, userId) ==
    [db EXCEPT !.games = [g \in DOMAIN db.games \cup {db.nextGameId} |->
                            IF g = db.nextGameId
                            THEN [user_id |-> userId, start_time |-> g,
                                  end_time |-> 0, outcome |-> "",
                                  cards_collected |-> 0]
                            ELSE db.games[g]],
                !.nextGameId = db.nextGameId + 1]

\* INSERT INTO game_cards (game_id, card_id, status) VALUES (?, ?, 'initial')
InitialRow(gameId, cardId) ==
    [game_id |-> gameId, card_id |-> cardId, status |-> "initial",
     round |-> NULL, guess_time |-> NULL, is_correct_guess |-> NULL]

\* The statements of startGame in order: BEGIN, the header insert, one insert
\* per initial card, COMMIT.
StartGameSteps == InitialCardCount + 3

\* The database after the statements before statement number k have run.
StartGameWritten(db, userId, initialCards, k) ==
    LET gameId == db.nextGameId
        n      == Min(Max(k - 3, 0), Len(initialCards))
    IN  IF k <= 2 THEN db
        ELSE [InsertGame(db, userId) EXCEPT !.game_cards =
                 db.game_cards \cup
                 { InitialRow(gameId, initialCards[i]) : i \in 1..n }]

\* startGame: failAt = 0 when every statement succeeds, else the number of the
\* statement that throws; the catch block rolls the transaction back.
startGame(db, userId, initialCards, failAt) ==
    IF failAt = 0
    THEN [ok |-> TRUE, gameId |-> db.nextGameId,
          db |-> StartGameWritten(db, userId, initialCards, StartGameSteps + 1)]
    ELSE [ok |-> FALSE, gameId |-> 0,
          db |-> Rollback(db, StartGameWritten(db, userId, initialCards, failAt))]

\* The constraints of table game_cards that an INSERT can violate.
UniqueGameCardDropped(gc, gameId, cardId) == TRUE

UniqueGameCard(gc, gameId, cardId) ==
    \A row \in gc : ~(row.game_id = gameId /\ row.card_id = cardId)

InsertAllowed(gs, gc, gameId, cardId) ==
    /\ gameId \in DOMAIN gs            \* FOREIGN KEY (game_id)
    /\ cardId \in CardIds              \* FOREIGN KEY (card_id)
    /\ UniqueGameCard(gc, gameId, cardId)

\* recordRoundOutcome: the row its INSERT adds.
RoundRowFlagNull(gameId, cardId, status, roundNumber, isCorrectGuess) ==
    [game_id |-> gameId, card_id |-> cardId, status |-> status,
     round |-> roundNumber, guess_time |-> 1, is_correct_guess |-> NULL]

RoundRow(gameId, cardId, status, roundNumber, isCorrectGuess) ==
    [game_id |-> gameId, card_id |-> cardId, status |-> status,
     round |-> roundNumber, guess_time |-> 1,
     is_correct_guess |-> IF isCorrectGuess THEN 1 ELSE 0]

recordRoundOutcome(gc, gameId, cardId, status, roundNumber, isCorrectGuess) ==
    gc \cup { RoundRow(gameId, cardId, status, roundNumber, isCorrectGuess) }

\* endGame: UPDATE games SET end_time, outcome, cards_collected WHERE id = ?
endGameCountingWon(gs, gameId, outcome, cardsCollected) ==
    [g \in DOMAIN gs |->
        IF g = gameId
        THEN [gs[g] EXCEPT !.end_time = gs[g].end_time + 1,
                           !.outcome = outcome,
                           !.cards_collected = cardsCollected - InitialCardCount]
        ELSE gs[g]]

endGame(gs, gameId, outcome, cardsCollected) ==
    [g \in DOMAIN gs |->
        IF g = gameId
        THEN [gs[g] EXCEPT !.end_time = gs[g].end_time + 1,
                           !.outcome = outcome,
                           !.cards_collected = cardsCollected]
        ELSE gs[g]]

\* getGameCards: the rows of the game joined with cards, ordered by index.
getGameCards(gc, gameId) ==
    OrderByIndex({ [id |-> row.card_id, bad_luck_index |-> Idx(row.card_id),
                    status |-> row.status, round |-> row.round,
                    is_correct_guess |-> row.is_correct_guess]
                   : row \in RowsOf(gc, gameId) })

getWonCardsCountInHand(gc, gameId) ==
    Cardinality({ row \in RowsOf(gc, gameId) : row.status \in {"initial", "won"} })

getWonCardsCount(gc, gameId) ==
    Cardinality({ row \in RowsOf(gc, gameId) : row.status = "won" })

getLostRoundsCount(gc, gameId) ==
    Cardinality({ row \in RowsOf(gc, gameId) :
                    \/ row.status = "lost"
                    \/ (row.status = "proposed" /\ row.is_correct_guess = 0) })

getInvolvedCardIdsInHand(gc, gameId) ==
    { row.card_id : row \in { r \in RowsOf(gc, gameId) :
                                r.status \in {"initial", "won"} } }

getInvolvedCardIds(gc, gameId) == { row.card_id : row \in RowsOf(gc, gameId) }

\* currentCards.filter(c => ['initial', 'won'].includes(c.status))
InHandUnfiltered(cardRows) == cardRows

InHand(cardRows) == SelectSeq(cardRows, LAMBDA c : c.status \in {"initial", "won"})

\* ------------------------------------------------------------ responses
\* The card to guess as next-round and the demo start send it:
\* { id: newCard.id, name: newCard.name, image: newCard.image }.
HiddenCardWhole(newCard) == newCard

HiddenCard(newCard) ==
    [id |-> newCard.id, name |-> newCard.name, image |-> newCard.image]

\* A response that carries no card to guess.
NoCard == [id |-> 0]

\* The fields of res.json(...) the handlers send; status is the HTTP status.
NoResp ==
    [op |-> "none", status |-> 0, gameId |-> 0, cardId |-> 0, round |-> 0,
     isCorrect |-> FALSE, gameOutcome |-> "null", cardsWonCount |-> 0,
     cardsLostCount |-> 0, cardList |-> <<>>, failedStmt |-> 0,
     badLuckIndex |-> 0, newCard |-> NoCard, history |-> <<>>]

\* An error response carries only a message; failedStmt is the statement of
\* startGame whose error the catch block logged (0: none).
ErrorResp(op, status, gameId) ==
    [NoResp EXCEPT !.op = op, !.status = status, !.gameId = gameId]

CardIdsOf(cardRows) == [i \in 1..Len(cardRows) |-> cardRows[i].id]

\* res.json({ isCorrect, badLuckIndex, wonCard, currentCards, gameOutcome,
\*            cardsWonCount, cardsLostCount }) of the guess handler; cardId
\* stands for wonCard and cardList for currentCards, the rows of those cards.
GuessResp(gameId, cardId, roundNumber, isCorrect, hand, gameOutcome, won, lost) ==
    [op |-> "guess", status |-> 200, gameId |-> gameId, cardId |-> cardId,
     round |-> roundNumber, isCorrect |-> isCorrect,
     gameOutcome |-> gameOutcome, cardsWonCount |-> won,
     cardsLostCount |-> lost, cardList |-> hand, failedStmt |-> 0,
     badLuckIndex |-> Idx(cardId), newCard |-> NoCard, history |-> <<>>]

\* res.status(200).json({ message, gameOutcome, cardsLostCount }) of lose-round.
LoseRoundResp(gameId, cardId, roundNumber, gameOutcome, cardsLostCount) ==
    [NoResp EXCEPT !.op = "lose-round", !.status = 200, !.gameId = gameId,
                   !.cardId = cardId, !.round = roundNumber,
                   !.gameOutcome = gameOutcome,
                   !.cardsLostCount = cardsLostCount]

\* --------------------------------------------------- inputs of requests
GameIdInputs == 1..MaxGames
CardIdInputs == 1..(Cardinality(cards) + 1)
RoundInputs == 1..MaxRound

\* The hands a client can send with a guess: the hand the server would
\* compute for the game, or any short sequence of index values.
TrueHand(gameId) ==
    LET hand == InHand(getGameCards(game_cards, gameId))
    IN  [i \in 1..Len(hand) |-> hand[i].bad_luck_index]

ForgedHands ==
    UNION { [1..n -> 1..(NumCards + 1)] : n \in 0..MaxForgedLen }

ClientHands(gameId) == {TrueHand(gameId)} \cup ForgedHands

PlacementInputs(hand) == -1..(Len(hand) + 1)

\* ------------------------------------------------- POST /api/games/start
\* if (initialCards.length < 3)
TooFewCardsUnchecked(initialCards) == FALSE

TooFewCards(initialCards) == Len(initialCards) < InitialCardCount

StartGameRoute(userId) ==
    /\ nextGameId <= MaxGames
    /\ \E drawn \in getRandomCards(InitialCardCount, {}) :
         IF TooFewCards(drawn)
         THEN /\ resp' = ErrorResp("start", 500, 0)
              /\ UNCHANGED <<games, game_cards, nextGameId>>
         ELSE LET initialCards == SortByIndex(drawn)
              IN  \E failAt \in 0..StartGameSteps :
                    LET tx == startGame(Db(games, game_cards, nextGameId),
                                        userId, initialCards, failAt)
                    IN  /\ games' = tx.db.games
                        /\ game_cards' = tx.db.game_cards
                        /\ nextGameId' = tx.db.nextGameId
                        /\ resp' = IF tx.ok
                                   THEN [NoResp EXCEPT !.op = "start",
                                            !.status = 201,
                                            !.gameId = tx.gameId,
                                            !.cardList = initialCards]
                                   ELSE [ErrorResp("start", 500, 0)
                                            EXCEPT !.failedStmt = failAt]
    /\ UNCHANGED <<cards, reqs, judge>>

\* ---------------------------------- GET /api/games/:gameId/next-round
\* The answer to the draw newCards: 404 when it is empty, else the card.
NextRoundResp(gameId, newCards) ==
    IF Len(newCards) = 0
    THEN ErrorResp("next-round", 404, gameId)
    ELSE [NoResp EXCEPT !.op = "next-round", !.status = 200,
                        !.gameId = gameId, !.cardId = newCards[1],
                        !.newCard = HiddenCard(CardRow(newCards[1]))]

NextRoundRoute(gameId) ==
    /\ LET involvedCardIds == getInvolvedCardIds(game_cards, gameId)
       IN  \E newCards \in getRandomCards(1, involvedCardIds) :
             resp' = NextRoundResp(gameId, newCards)
    /\ UNCHANGED <<cards, games, game_cards, nextGameId, reqs, judge>>

\* ------------------------------------- POST /api/games/:gameId/guess
\* The threshold check after the counts were read: the outcome the handler
\* reports, "null" when the game goes on.
GuessOutcomeLate(cardsWonCount, cardsLostCount) ==
    IF cardsWonCount > WinThreshold THEN "Won"
    ELSE IF cardsLostCount >= LoseThreshold THEN "Lost"
    ELSE "null"

GuessOutcome(cardsWonCount, cardsLostCount) ==
    IF cardsWonCount >= WinThreshold THEN "Won"
    ELSE IF cardsLostCount >= LoseThreshold THEN "Lost"
    ELSE "null"

GuessRoute(gameId, cardId, playerHand, placementIndex, roundNumber) ==
    /\ IF getCardById(cardId) = {}
       THEN /\ resp' = ErrorResp("guess", 404, gameId)
            /\ UNCHANGED <<games, game_cards>>
       ELSE LET isCorrect == JudgeGuess(playerHand, placementIndex, Idx(cardId))
                status    == IF isCorrect THEN "won" ELSE "lost"
            IN  IF ~InsertAllowed(games, game_cards, gameId, cardId)
                THEN /\ resp' = ErrorResp("guess", 500, gameId)
                     /\ UNCHANGED <<games, game_cards>>
                ELSE LET gc == recordRoundOutcome(game_cards, gameId, cardId,
                                                  status, roundNumber, isCorrect)
                         currentCards  == InHand(getGameCards(gc, gameId))
                         cardsWonCount == getWonCardsCount(gc, gameId)
                         cardsLostCount == getLostRoundsCount(gc, gameId)
                         gameOutcome == GuessOutcome(cardsWonCount, cardsLostCount)
                     IN  /\ game_cards' = gc
                         /\ games' = IF gameOutcome = "null" THEN games
                                     ELSE endGame(games, gameId, gameOutcome,
                                                  Len(currentCards))
                         /\ resp' = GuessResp(gameId, cardId, roundNumber,
                                         isCorrect, CardIdsOf(currentCards),
                                         gameOutcome, cardsWonCount,
                                         cardsLostCount)
    /\ UNCHANGED <<cards, nextGameId, reqs, judge>>

\* --------------------------------- POST /api/games/:gameId/lose-round
LoseRoundOutcomeWon(cardsLostCount) ==
    IF cardsLostCount >= LoseThreshold THEN "Won" ELSE "null"

LoseRoundOutcome(cardsLostCount) ==
    IF cardsLostCount >= LoseThreshold THEN "Lost" ELSE "null"

LoseRoundRoute(gameId, cardId, roundNumber) ==
    /\ IF ~InsertAllowed(games, game_cards, gameId, cardId)
       THEN /\ resp' = ErrorResp("lose-round", 500, gameId)
            /\ UNCHANGED <<games, game_cards>>
       ELSE LET gc == recordRoundOutcome(game_cards, gameId, cardId,
                                         "discarded", roundNumber, FALSE)
                cardsLostCount == getLostRoundsCount(gc, gameId)
                gameOutcome == LoseRoundOutcome(cardsLostCount)
                currentCardsCount == Len(InHand(getGameCards(gc, gameId)))
            IN  /\ game_cards' = gc
                /\ games' = IF gameOutcome = "null" THEN games
                            ELSE endGame(games, gameId, gameOutcome,
                                         currentCardsCount)
                /\ resp' = LoseRoundResp(gameId, cardId, roundNumber,
                                          gameOutcome, cardsLostCount)
    /\ UNCHANGED <<cards, nextGameId, reqs, judge>>

\* ------------------------------------------- requests run one at a time
\* The local variables of a handler while it is suspended at an await.
Idle ==
    [op |-> "idle", pc |-> "idle", gameId |-> 0, cardId |-> 0, round |-> 0,
     isCorrect |-> FALSE, currentCards |-> <<>>, won |-> 0, lost |-> 0,
     outcome |-> "null", involved |-> {}, userId |-> 0, initialCards |-> <<>>,
     inserted |-> 0]

NoJudge == [hand |-> <<>>, placementIndex |-> 0, newIdx |-> 0, verdict |-> "none"]

\* No request recorded; failAt is the number of the awaited statement that
\* rejected (0: none), draw the outcome of ORDER BY RANDOM(), userId the
\* req.user.id of the session (0: none), anonymous whether the request came
\* without an authenticated session.
NoCall ==
    [op |-> "none", gameId |-> 0, cardId |-> 0, hand |-> <<>>,
     placementIndex |-> 0, round |-> 0, failAt |-> 0, draw |-> <<>>,
     userId |-> 0, anonymous |-> FALSE]

\* useState(null) of proposedPlacementIndex.
NoIndex == -1

\* The state of the page before its setup effect: the useState(...) calls of
\* PlayGamePage, 0 for a null gameId or card and FALSE for an empty message.
\* timeLeft starts at RoundSeconds, the code's 30.  pending is the bag of the
\* calls of API functions that wait for their answer, each with the values
\* its handler closed over, and delivered the cards getNextRoundCard has
\* given the page, in order.
NoClient ==
    [gameOutcome |-> "null", error |-> "", gameId |-> 0, isDemo |-> FALSE,
     playerCards |-> <<>>, currentRoundCard |-> 0,
     roundOutcomeMessage |-> FALSE, roundNumber |-> 1, wonCardsCount |-> 0,
     lostRoundsCount |-> 0, timeLeft |-> RoundSeconds, timerActive |-> FALSE,
     proposedPlacementIndex |-> NoIndex, pending |-> EmptyBag,
     delivered |-> <<>>]

\* No transaction is open on the connection: every statement commits on its
\* own.  snapshot is the database as BEGIN TRANSACTION found it.
NoTx ==
    [active |-> FALSE,
     snapshot |-> [games |-> <<>>, game_cards |-> {}, nextGameId |-> 1]]

NoTwin ==
    [phase |-> "off", cards |-> {}, games |-> <<>>, game_cards |-> {},
     resp |-> NoResp]

NoCallers ==
    /\ call = NoCall
    /\ client = NoClient
    /\ twin = NoTwin
    /\ conn = NoTx

InitTables(n) ==
    /\ cards = Catalog(n)
    /\ games = <<>>
    /\ game_cards = {}
    /\ nextGameId = 1
    /\ resp = NoResp
    /\ reqs = EmptyBag
    /\ NoCallers

Init ==
    /\ InitTables(NumCards)
    /\ judge = NoJudge

StartGame ==
    /\ \E userId \in Users : StartGameRoute(userId)
    /\ UNCHANGED callers

NextRound ==
    /\ \E gameId \in GameIdInputs : NextRoundRoute(gameId)
    /\ UNCHANGED callers

Guess ==
    /\ \E gameId \in GameIdInputs :
         \E playerHand \in ClientHands(gameId) :
           \E placementIndex \in PlacementInputs(playerHand) :
             \E cardId \in CardIdInputs, roundNumber \in RoundInputs :
               GuessRoute(gameId, cardId, playerHand, placementIndex, roundNumber)
    /\ UNCHANGED callers

LoseRound ==
    /\ \E gameId \in GameIdInputs, cardId \in CardIdInputs, roundNumber \in RoundInputs :
         LoseRoundRoute(gameId, cardId, roundNumber)
    /\ UNCHANGED callers

Next == StartGame \/ NextRound \/ Guess \/ LoseRound

Spec == Init /\ [][Next]_vars

\* ------------------------------------------------- small catalogs
\* The requests of Spec on a catalog of any size up to NumCardsSmall, the
\* empty catalog and those too small for a game included.
InitSmall ==
    /\ \E n \in 0..NumCardsSmall : InitTables(n)
    /\ judge = NoJudge

SpecSmall == InitSmall /\ [][Next]_vars

\* --------------------------------- a long game on a larger catalog
\* The state right after user 1 started a game on a catalog of NumCardsLong
\* cards and drew cards 1, 2 and 3; the rounds are then resolved by guesses,
\* one at a time.
InitLong ==
    /\ cards = Catalog(NumCardsLong)
    /\ LET tx == startGame(Db(<<>>, {}, 1), 1, SortByIndex(<<1, 2, 3>>), 0)
       IN  /\ games = tx.db.games
           /\ game_cards = tx.db.game_cards
           /\ nextGameId = tx.db.nextGameId
    /\ resp = NoResp
    /\ reqs = EmptyBag
    /\ NoCallers
    /\ judge = NoJudge

NextLong == Guess

SpecLong == InitLong /\ [][NextLong]_vars

\* ------------------------------------ requests interleaved at their awaits
\* Each action below is one continuation of a handler: the code from one await
\* to the next, together with the database statement it awaits.  getCardById
\* reads the immutable table cards, so it is taken with the arrival.

Arrive(req) ==
    /\ BagCardinality(reqs) < MaxInFlight
    /\ reqs' = reqs (+) SetToBag({req})

Suspend(req, next) == reqs' = (reqs (-) SetToBag({req})) (+) SetToBag({next})

Finish(req, response) ==
    /\ reqs' = reqs (-) SetToBag({req})
    /\ resp' = response

ArriveGuess(gameId, cardId, playerHand, placementIndex, roundNumber) ==
    /\ BagCardinality(reqs) < MaxInFlight
    /\ IF getCardById(cardId) = {}
       THEN /\ resp' = ErrorResp("guess", 404, gameId)
            /\ UNCHANGED reqs
       ELSE /\ Arrive([Idle EXCEPT !.op = "guess", !.pc = "insert",
                          !.gameId = gameId, !.cardId = cardId,
                          !.round = roundNumber,
                          !.isCorrect = JudgeGuess(playerHand, placementIndex,
                                                   Idx(cardId))])
            /\ UNCHANGED resp
    /\ UNCHANGED <<cards, games, game_cards, nextGameId, judge>>

ArriveLoseRound(gameId, cardId, roundNumber) ==
    /\ Arrive([Idle EXCEPT !.op = "lose-round", !.pc = "insert",
                  !.gameId = gameId, !.cardId = cardId, !.round = roundNumber])
    /\ UNCHANGED <<cards, games, game_cards, nextGameId, resp, judge>>

\* await recordRoundOutcome(...): the INSERT runs, or throws on a constraint.
StepRecordRoundOutcome(req) ==
    LET status == IF req.op = "lose-round" THEN "discarded"
                  ELSE IF req.isCorrect THEN "won" ELSE "lost"
    IN  /\ req.pc = "insert"
        /\ IF ~InsertAllowed(games, game_cards, req.gameId, req.cardId)
           THEN /\ Suspend(req, [req EXCEPT !.pc = "catch"])
                /\ UNCHANGED game_cards
           ELSE /\ game_cards' = recordRoundOutcome(game_cards, req.gameId,
                                    req.cardId, status, req.round, req.isCorrect)
                /\ Suspend(req, [req EXCEPT !.pc =
                                    IF req.op = "guess" THEN "cards" ELSE "lost"])
        /\ UNCHANGED <<cards, games, nextGameId, resp, judge>>

\* The catch block of a handler whose INSERT threw.
StepCatch(req) ==
    /\ req.pc = "catch"
    /\ Finish(req, ErrorResp(req.op, 500, req.gameId))
    /\ UNCHANGED <<cards, games, game_cards, nextGameId, judge>>

\* await getGameCards(...), filtered to the cards in hand.
StepGetGameCards(req) ==
    /\ req.pc = "cards"
    /\ Suspend(req, [req EXCEPT
                       !.currentCards =
                           CardIdsOf(InHand(getGameCards(game_cards, req.gameId))),
                       !.pc = IF req.op = "guess" THEN "won" ELSE "end"])
    /\ UNCHANGED <<cards, games, game_cards, nextGameId, resp, judge>>

\* await getWonCardsCount(...)
StepGetWonCardsCount(req) ==
    /\ req.pc = "won"
    /\ Suspend(req, [req EXCEPT !.won = getWonCardsCount(game_cards, req.gameId),
                                !.pc = "lost"])
    /\ UNCHANGED <<cards, games, game_cards, nextGameId, resp, judge>>

\* await getLostRoundsCount(...) and the threshold check that follows it; the
\* handler responds at once when the game goes on.
StepGetLostRoundsCount(req) ==
    LET lost == getLostRoundsCount(game_cards, req.gameId)
        gameOutcome == IF req.op = "guess" THEN GuessOutcome(req.won, lost)
                       ELSE LoseRoundOutcome(lost)
    IN  /\ req.pc = "lost"
        /\ IF gameOutcome = "null"
           THEN Finish(req, IF req.op = "guess"
                            THEN GuessResp(req.gameId, req.cardId, req.round,
                                           req.isCorrect, req.currentCards,
                                           gameOutcome, req.won, lost)
                            ELSE LoseRoundResp(req.gameId, req.cardId, req.round,
                                               gameOutcome, lost))
           ELSE /\ Suspend(req, [req EXCEPT !.lost = lost, !.outcome = gameOutcome,
                                    !.pc = IF req.op = "guess" THEN "end" ELSE "cards"])
                /\ UNCHANGED resp
        /\ UNCHANGED <<cards, games, game_cards, nextGameId, judge>>

\* await endGame(...), then the response.
StepEndGame(req) ==
    /\ req.pc = "end"
    /\ games' = endGame(games, req.gameId, req.outcome, Len(req.currentCards))
    /\ Finish(req, IF req.op = "guess"
                   THEN GuessResp(req.gameId, req.cardId, req.round,
                                  req.isCorrect, req.currentCards,
                                  req.outcome, req.won, req.lost)
                   ELSE LoseRoundResp(req.gameId, req.cardId, req.round,
                                      req.outcome, req.lost))
    /\ UNCHANGED <<cards, game_cards, nextGameId, judge>>

\* The state right after user 1 started a game that drew cards 1, 2 and 3.
InitConc ==
    /\ cards = Catalog(NumCards)
    /\ LET tx == startGame(Db(<<>>, {}, 1), 1, SortByIndex(<<1, 2, 3>>), 0)
       IN  /\ games = tx.db.games
           /\ game_cards = tx.db.game_cards
           /\ nextGameId = tx.db.nextGameId
    /\ resp = NoResp
    /\ reqs = EmptyBag
    /\ NoCallers
    /\ judge = NoJudge

GuessArrives ==
    /\ \E gameId \in GameIdInputs :
         \E playerHand \in ClientHands(gameId) :
           \E placementIndex \in PlacementInputs(playerHand) :
             \E cardId \in CardIdInputs, roundNumber \in RoundInputs :
               ArriveGuess(gameId, cardId, playerHand, placementIndex, roundNumber)
    /\ UNCHANGED callers

LoseRoundArrives ==
    /\ \E gameId \in GameIdInputs :
         \E cardId \in CardIdInputs, roundNumber \in RoundInputs :
           ArriveLoseRound(gameId, cardId, roundNumber)
    /\ UNCHANGED callers

RecordRoundOutcomeRuns ==
    /\ \E req \in BagToSet(reqs) : StepRecordRoundOutcome(req)
    /\ UNCHANGED callers

CatchRuns ==
    /\ \E req \in BagToSet(reqs) : StepCatch(req)
    /\ UNCHANGED callers

GetGameCardsRuns ==
    /\ \E req \in BagToSet(reqs) : StepGetGameCards(req)
    /\ UNCHANGED callers

GetWonCardsCountRuns ==
    /\ \E req \in BagToSet(reqs) : StepGetWonCardsCount(req)
    /\ UNCHANGED callers

GetLostRoundsCountRuns ==
    /\ \E req \in BagToSet(reqs) : StepGetLostRoundsCount(req)
    /\ UNCHANGED callers

EndGameRuns ==
    /\ \E req \in BagToSet(reqs) : StepEndGame(req)
    /\ UNCHANGED callers

NextConc ==
    \/ GuessArrives
    \/ LoseRoundArrives
    \/ RecordRoundOutcomeRuns
    \/ CatchRuns
    \/ GetGameCardsRuns
    \/ GetWonCardsCountRuns
    \/ GetLostRoundsCountRuns
    \/ EndGameRuns

SpecConc == InitConc /\ [][NextConc]_vars

\* ------------------------------------------------- the round judge alone
JudgeHands == UNION { [1..n -> 1..MaxJudgeIdx] : n \in 0..MaxJudgeLen }

InitJudge ==
    /\ InitTables(NumCards)
    /\ \E hand \in JudgeHands :
         \E placementIndex \in -1..(Len(hand) + 1), newIdx \in 1..MaxJudgeIdx :
           judge = [hand |-> hand, placementIndex |-> placementIndex,
                    newIdx |-> newIdx, verdict |-> "none"]

JudgeStep ==
    /\ judge.verdict = "none"
    /\ judge' = [judge EXCEPT !.verdict =
                    IF JudgeGuess(judge.hand, judge.placementIndex, judge.newIdx)
                    THEN "correct" ELSE "incorrect"]
    /\ UNCHANGED <<cards, games, game_cards, nextGameId, resp, reqs>>
    /\ UNCHANGED callers

SpecJudge == InitJudge /\ [][JudgeStep]_vars

\* ------------------------------- requests recorded with their arguments
\* The requests below are those of Spec, made on a started game; call keeps
\* the arguments of the last one.
GuessCall(gameId, cardId, playerHand, placementIndex, roundNumber) ==
    [NoCall EXCEPT !.op = "guess", !.gameId = gameId, !.cardId = cardId,
                   !.hand = playerHand, !.placementIndex = placementIndex,
                   !.round = roundNumber]

LoseRoundCall(gameId, cardId, roundNumber) ==
    [NoCall EXCEPT !.op = "lose-round", !.gameId = gameId, !.cardId = cardId,
                   !.round = roundNumber]

\* The awaited statements of the guess handler, in order: getCardById,
\* recordRoundOutcome, getGameCards, getWonCardsCount, getLostRoundsCount,
\* endGame.
GuessSteps == 6

\* The guess handler when its awaited statement number failAt rejects: the
\* statements before it have run, each in its own implicit transaction, and
\* the catch block answers 500.  The action is enabled only if the handler
\* reaches that statement.
GuessRouteThrows(gameId, cardId, playerHand, placementIndex, roundNumber, failAt) ==
    /\ failAt \in 1..GuessSteps
    /\ failAt >= 2 => getCardById(cardId) # {}
    /\ failAt >= 3 => InsertAllowed(games, game_cards, gameId, cardId)
    /\ IF failAt <= 2
       THEN UNCHANGED game_cards
       ELSE LET isCorrect == JudgeGuess(playerHand, placementIndex, Idx(cardId))
                status    == IF isCorrect THEN "won" ELSE "lost"
                gc == recordRoundOutcome(game_cards, gameId, cardId, status,
                                         roundNumber, isCorrect)
            IN  /\ failAt = GuessSteps =>
                      GuessOutcome(getWonCardsCount(gc, gameId),
                                   getLostRoundsCount(gc, gameId)) # "null"
                /\ game_cards' = gc
    /\ resp' = ErrorResp("guess", 500, gameId)
    /\ UNCHANGED <<cards, games, nextGameId, reqs, judge>>

\* The awaited statements of the lose-round handler: recordRoundOutcome,
\* getLostRoundsCount, getGameCards, endGame.
LoseRoundSteps == 4

LoseRoundRouteThrows(gameId, cardId, roundNumber, failAt) ==
    /\ failAt \in 1..LoseRoundSteps
    /\ failAt >= 2 => InsertAllowed(games, game_cards, gameId, cardId)
    /\ IF failAt <= 1
       THEN UNCHANGED game_cards
       ELSE LET gc == recordRoundOutcome(game_cards, gameId, cardId,
                                         "discarded", roundNumber, FALSE)
            IN  /\ failAt >= 3 =>
                      LoseRoundOutcome(getLostRoundsCount(gc, gameId)) # "null"
                /\ game_cards' = gc
    /\ resp' = ErrorResp("lose-round", 500, gameId)
    /\ UNCHANGED <<cards, games, nextGameId, reqs, judge>>

GuessCalled ==
    \E gameId \in GameIdInputs :
      \E playerHand \in ClientHands(gameId) :
        \E placementIndex \in PlacementInputs(playerHand) :
          \E cardId \in CardIdInputs, roundNumber \in RoundInputs :
            /\ GuessRoute(gameId, cardId, playerHand, placementIndex, roundNumber)
            /\ call' = GuessCall(gameId, cardId, playerHand, placementIndex,
                                 roundNumber)
            /\ UNCHANGED <<client, twin, conn>>

LoseRoundCalled ==
    \E gameId \in GameIdInputs, cardId \in CardIdInputs, roundNumber \in RoundInputs :
      /\ LoseRoundRoute(gameId, cardId, roundNumber)
      /\ call' = LoseRoundCall(gameId, cardId, roundNumber)
      /\ UNCHANGED <<client, twin, conn>>

NextRoundCalled ==
    \E gameId \in GameIdInputs :
      /\ NextRoundRoute(gameId)
      /\ call' = [NoCall EXCEPT !.op = "next-round", !.gameId = gameId]
      /\ UNCHANGED <<client, twin, conn>>

GuessThrown ==
    \E gameId \in GameIdInputs :
      \E playerHand \in ClientHands(gameId) :
        \E placementIndex \in PlacementInputs(playerHand) :
          \E cardId \in CardIdInputs, roundNumber \in RoundInputs :
            \E failAt \in 1..GuessSteps :
              /\ GuessRouteThrows(gameId, cardId, playerHand, placementIndex,
                                  roundNumber, failAt)
              /\ call' = [GuessCall(gameId, cardId, playerHand, placementIndex,
                                    roundNumber) EXCEPT !.failAt = failAt]
              /\ UNCHANGED <<client, twin, conn>>

LoseRoundThrown ==
    \E gameId \in GameIdInputs, cardId \in CardIdInputs, roundNumber \in RoundInputs :
      \E failAt \in 1..LoseRoundSteps :
        /\ LoseRoundRouteThrows(gameId, cardId, roundNumber, failAt)
        /\ call' = [LoseRoundCall(gameId, cardId, roundNumber)
                       EXCEPT !.failAt = failAt]
        /\ UNCHANGED <<client, twin, conn>>

\* --------------------------------------------- the page PlayGamePage
\* The functions of the object API of client/src/API.js, and the routes the
\* server registers.
API ==
    {"logIn", "logOut", "getCurrentUser", "startGame", "getNextRoundCard",
     "submitGuess", "loseRound", "getGameHistory", "startDemoGame",
     "submitDemoGuess"}

Routes ==
    {"login", "logout", "current-user", "start", "next-round", "guess",
     "lose-round", "history", "demo-start", "demo-guess"}

\* handleNextRound, from its catch block on: getNextRoundCard was answered
\* 'No more unique cards available for this game.'; the page sets its own
\* gameOutcome to 'Lost' and calls API.endGame(gameId, 'Lost', count).  A
\* call of a property the object API does not have throws a TypeError before
\* any request is sent; a request for a route the server does not register
\* changes no table.
HandleNextRoundCatch(gameId) ==
    /\ client.gameOutcome = "null"
    /\ resp.op = "next-round" /\ resp.status = 404 /\ resp.gameId = gameId
    /\ client' = [client EXCEPT
                     !.gameOutcome = "Lost",
                     !.error = IF "endGame" \in API THEN "" ELSE "TypeError"]
    /\ games' = IF "endGame" \in API /\ "endGame" \in Routes
                THEN endGame(games, gameId, "Lost",
                             Len(InHand(getGameCards(game_cards, gameId))))
                ELSE games
    /\ call' = [NoCall EXCEPT !.op = "endGame", !.gameId = gameId]
    /\ UNCHANGED <<cards, game_cards, nextGameId, resp, reqs, judge, twin, conn>>

ForceEnd == \E gameId \in GameIdInputs : HandleNextRoundCatch(gameId)

NextCall ==
    \/ GuessCalled
    \/ LoseRoundCalled
    \/ NextRoundCalled
    \/ GuessThrown
    \/ LoseRoundThrown
    \/ ForceEnd

SpecCall == InitConc /\ [][NextCall]_vars

\* --------------------------------------------------------- demo routes
\* POST /api/demo-game/start; drawn and newCards are the results of the two
\* ORDER BY RANDOM() queries.  cardList holds the ids of initialCards, sent
\* with every column, newCard the card to guess.
DemoStartRoute(drawn, newCards) ==
    /\ drawn \in getRandomCards(InitialCardCount, {})
    /\ IF Len(drawn) < InitialCardCount
       THEN /\ newCards = <<>>
            /\ resp' = ErrorResp("demo-start", 500, 0)
       ELSE LET initialCards   == SortByIndex(drawn)
                initialCardIds == { initialCards[i] : i \in 1..Len(initialCards) }
            IN  /\ newCards \in getRandomCards(1, initialCardIds)
                /\ resp' = IF Len(newCards) = 0
                           THEN ErrorResp("demo-start", 500, 0)
                           ELSE [NoResp EXCEPT !.op = "demo-start",
                                    !.status = 200,
                                    !.cardList = initialCards,
                                    !.cardId = newCards[1],
                                    !.newCard = HiddenCard(CardRow(newCards[1]))]
    /\ UNCHANGED <<cards, games, game_cards, nextGameId, reqs, judge>>

\* The for loop of the demo guess over adjacent pairs of its tempHand.
RECURSIVE DemoSortedLoop(_, _)
DemoSortedLoopStrict(tempHand, i) ==
    IF i >= Len(tempHand) THEN TRUE
    ELSE IF tempHand[i] >= tempHand[i + 1] THEN FALSE
    ELSE DemoSortedLoop(tempHand, i + 1)

DemoSortedLoop(tempHand, i) ==
    IF i >= Len(tempHand) THEN TRUE
    ELSE IF tempHand[i] > tempHand[i + 1] THEN FALSE
    ELSE DemoSortedLoop(tempHand, i + 1)

\* isCorrect of the demo guess: the splice into a copy of initialCards, then
\* the loop.
JudgeDemoGuess(initialCards, placementIndex, newIdx) ==
    DemoSortedLoop(Splice(initialCards, placementIndex, newIdx), 1)

\* POST /api/demo-game/guess; initialCards is the sequence of the
\* bad_luck_index values of the cards the client sent.
DemoGuessRoutePersisting(initialCards, newCardId, placementIndex) ==
    /\ resp' = [NoResp EXCEPT !.op = "demo-guess", !.status = 200]
    /\ game_cards' = recordRoundOutcome(game_cards, 1, newCardId, "won", 1, TRUE)
    /\ UNCHANGED <<cards, games, nextGameId, reqs, judge>>

DemoGuessRoute(initialCards, newCardId, placementIndex) ==
    /\ resp' = IF getCardById(newCardId) = {}
               THEN ErrorResp("demo-guess", 404, 0)
               ELSE [NoResp EXCEPT !.op = "demo-guess", !.status = 200,
                        !.cardId = newCardId,
                        !.isCorrect = JudgeDemoGuess(initialCards,
                                         placementIndex, Idx(newCardId)),
                        !.badLuckIndex = Idx(newCardId)]
    /\ UNCHANGED <<cards, games, game_cards, nextGameId, reqs, judge>>

\* The arrays a client can send as initialCards.
DemoHands == UNION { [1..n -> 1..(NumCards + 1)] : n \in 0..MaxDemoLen }

\* ------------------------------------------- two runs on two catalogs
\* The server is run twice, on two catalogs that differ in the index of one
\* card only, and every request is made to both runs with the same arguments
\* and the same outcome of ORDER BY RANDOM(): a request is served by the run
\* held in cards, games, game_cards and resp (twin.phase "ask"), the two runs
\* change places ("swap"), the other run serves the same request ("replay")
\* and the two responses are delivered ("done").  The player holds cards 1,
\* 2 and 3 in both runs and never resolves the card HiddenCardId.
HiddenCardId == NumCards

VariantCatalog(catalog, cardId, index) ==
    { IF row.id = cardId THEN [row EXCEPT !.bad_luck_index = index] ELSE row
      : row \in catalog }

\* The JSON body of a response on a catalog: the cards of cardList and the
\* won card are sent with every column of their rows.
Body(catalog, r) ==
    [status |-> r.status, op |-> r.op, gameId |-> r.gameId,
     isCorrect |-> r.isCorrect, badLuckIndex |-> r.badLuckIndex,
     wonCard |-> IF r.isCorrect
                 THEN { row \in catalog : row.id = r.cardId } ELSE {},
     cardList |-> [i \in 1..Len(r.cardList) |->
                     CHOOSE row \in catalog : row.id = r.cardList[i]],
     newCard |-> r.newCard, gameOutcome |-> r.gameOutcome,
     cardsWonCount |-> r.cardsWonCount, cardsLostCount |-> r.cardsLostCount]

InitTwin ==
    /\ cards = Catalog(NumCards)
    /\ LET tx == startGame(Db(<<>>, {}, 1), 1, SortByIndex(<<1, 2, 3>>), 0)
       IN  /\ games = tx.db.games
           /\ game_cards = tx.db.game_cards
           /\ nextGameId = tx.db.nextGameId
           /\ twin = [phase |-> "ask",
                      cards |-> VariantCatalog(Catalog(NumCards), HiddenCardId,
                                               NumCards + 1),
                      games |-> tx.db.games, game_cards |-> tx.db.game_cards,
                      resp |-> NoResp]
    /\ resp = NoResp
    /\ reqs = EmptyBag
    /\ judge = NoJudge
    /\ call = NoCall
    /\ client = NoClient
    /\ conn = NoTx

\* A request was served by the first run.
Asked == twin' = [twin EXCEPT !.phase = "swap"]

AskNextRound ==
    /\ twin.phase = "ask"
    /\ \E gameId \in GameIdInputs :
         /\ NextRoundRoute(gameId)
         /\ call' = [NoCall EXCEPT !.op = "next-round", !.gameId = gameId,
                        !.draw = IF resp'.status = 200
                                 THEN <<resp'.cardId>> ELSE <<>>]
    /\ Asked
    /\ UNCHANGED <<client, conn>>

AskGuess ==
    /\ twin.phase = "ask"
    /\ \E gameId \in GameIdInputs :
         \E playerHand \in ClientHands(gameId) :
           \E placementIndex \in PlacementInputs(playerHand) :
             \E cardId \in CardIdInputs \ {HiddenCardId}, roundNumber \in RoundInputs :
               /\ GuessRoute(gameId, cardId, playerHand, placementIndex, roundNumber)
               /\ call' = GuessCall(gameId, cardId, playerHand, placementIndex,
                                    roundNumber)
    /\ Asked
    /\ UNCHANGED <<client, conn>>

AskDemoStart ==
    /\ twin.phase = "ask"
    /\ \E drawn \in getRandomCards(InitialCardCount, {}) :
         \E newCards \in getRandomCards(1, { drawn[i] : i \in 1..Len(drawn) }) :
           /\ DemoStartRoute(drawn, newCards)
           /\ call' = [NoCall EXCEPT !.op = "demo-start",
                                     !.draw = <<drawn, newCards>>]
    /\ Asked
    /\ UNCHANGED <<client, conn>>

AskDemoGuess ==
    /\ twin.phase = "ask"
    /\ \E initialCards \in DemoHands :
         \E placementIndex \in PlacementInputs(initialCards) :
           \E newCardId \in CardIdInputs :
             /\ DemoGuessRoute(initialCards, newCardId, placementIndex)
             /\ call' = [NoCall EXCEPT !.op = "demo-guess", !.cardId = newCardId,
                            !.hand = initialCards,
                            !.placementIndex = placementIndex]
    /\ Asked
    /\ UNCHANGED <<client, conn>>

\* The two runs change places.
Swap ==
    /\ twin.phase = "swap"
    /\ cards' = twin.cards
    /\ games' = twin.games
    /\ game_cards' = twin.game_cards
    /\ resp' = twin.resp
    /\ twin' = [phase |-> "replay", cards |-> cards, games |-> games,
                game_cards |-> game_cards, resp |-> resp]
    /\ UNCHANGED <<nextGameId, reqs, judge, call, client, conn>>

\* The other run serves the recorded request; its random queries give the
\* rows they gave in the first run whenever those rows are eligible.
Replay ==
    /\ twin.phase = "replay"
    /\ CASE call.op = "next-round" ->
              /\ NextRoundRoute(call.gameId)
              /\ ( /\ call.draw # <<>>
                   /\ call.draw \in getRandomCards(1,
                          getInvolvedCardIds(game_cards, call.gameId)) )
                 => resp'.cardId = call.draw[1]
         [] call.op = "guess" ->
              GuessRoute(call.gameId, call.cardId, call.hand,
                         call.placementIndex, call.round)
         [] call.op = "demo-start" ->
              DemoStartRoute(call.draw[1], call.draw[2])
         [] call.op = "demo-guess" ->
              DemoGuessRoute(call.hand, call.cardId, call.placementIndex)
    /\ twin' = [twin EXCEPT !.phase = "done"]
    /\ UNCHANGED <<call, client, conn>>

\* Both responses have reached the client; the next request can be made.
Deliver ==
    /\ twin.phase = "done"
    /\ resp' = NoResp
    /\ call' = NoCall
    /\ twin' = [twin EXCEPT !.phase = "ask", !.resp = NoResp]
    /\ UNCHANGED <<cards, games, game_cards, nextGameId, reqs, judge, client, conn>>

NextTwin ==
    \/ AskNextRound
    \/ AskGuess
    \/ AskDemoStart
    \/ AskDemoGuess
    \/ Swap
    \/ Replay
    \/ Deliver

SpecTwin == InitTwin /\ [][NextTwin]_vars

\* ---------------------------------------------------- GET /api/history
\* SELECT ... FROM games WHERE user_id = ?
GamesOfAnyUser(gs, userId) == DOMAIN gs

GamesOfUser(gs, userId) == { g \in DOMAIN gs : gs[g].user_id = userId }

\* ORDER BY start_time DESC over the selected rows of games.
RECURSIVE OrderByStartTimeDesc(_, _)
OrderByStartTimeDesc(gs, ids) ==
    IF ids = {} THEN <<>>
    ELSE LET m == CHOOSE x \in ids :
                      \A y \in ids : gs[x].start_time >= gs[y].start_time
         IN  <<m>> \o OrderByStartTimeDesc(gs, ids \ {m})

\* getGameHistory: the selected columns of each game of the user, with the
\* result of getGameCards attached as gameCards.
getGameHistory(gs, gc, userId) ==
    LET ids == OrderByStartTimeDesc(gs, GamesOfUser(gs, userId))
    IN  [i \in 1..Len(ids) |->
            [id |-> ids[i], start_time |-> gs[ids[i]].start_time,
             end_time |-> gs[ids[i]].end_time, outcome |-> gs[ids[i]].outcome,
             cards_collected |-> gs[ids[i]].cards_collected,
             gameCards |-> getGameCards(gc, ids[i])]]

HistoryRoute(userId) ==
    /\ resp' = [NoResp EXCEPT !.op = "history", !.status = 200,
                    !.history = getGameHistory(games, game_cards, userId)]
    /\ UNCHANGED <<cards, games, game_cards, nextGameId, reqs, judge>>

\* The database after the users of owners have each started a game, one
\* after the other; the game number g drew the cards g, g + 1 and g + 2.
RECURSIVE StartedGames(_, _)
StartedGames(db, owners) ==
    IF owners = <<>> THEN db
    ELSE LET g == db.nextGameId
         IN  StartedGames(startGame(db, Head(owners),
                                    SortByIndex(<<g, g + 1, g + 2>>), 0).db,
                          Tail(owners))

\* MaxHistGames games were started, by any of the users; the rounds of the
\* first one are then resolved and the history is read.
InitHist ==
    /\ cards = Catalog(NumCards)
    /\ \E owners \in [1..MaxHistGames -> Users] :
         LET db == StartedGames(Db(<<>>, {}, 1), owners)
         IN  /\ games = db.games
             /\ game_cards = db.game_cards
             /\ nextGameId = db.nextGameId
    /\ resp = NoResp
    /\ reqs = EmptyBag
    /\ NoCallers
    /\ judge = NoJudge

History ==
    \E userId \in Users :
      /\ HistoryRoute(userId)
      /\ call' = [NoCall EXCEPT !.op = "history", !.userId = userId]
      /\ UNCHANGED <<client, twin, conn>>

NextHist == Guess \/ LoseRound \/ History

SpecHist == InitHist /\ [][NextHist]_vars

\* ------------------------------------------- the authentication gate
\* isLoggedIn: next() when req.isAuthenticated(), else the answer 401.
isLoggedInAlways(authenticated) == TRUE

isLoggedIn(authenticated) == authenticated

\* The routes registered with the middleware isLoggedIn.
Guarded ==
    {"logout", "current-user", "start", "next-round", "guess", "lose-round",
     "history"}

\* A request reaches the handler of its route.
Admitted(route, authenticated) == route \in Guarded => isLoggedIn(authenticated)

\* res.status(401).json({ error: 'Not authenticated' })
Refuse(route, gameId) ==
    /\ resp' = ErrorResp(route, 401, gameId)
    /\ UNCHANGED <<cards, games, game_cards, nextGameId, reqs, judge>>

\* The sessions a request can come with: none (0), or that of a user, whose
\* id is then req.user.id; only start and history read req.user.
Sessions == 0..NumUsers

ApiCall(route, session, authenticated) ==
    [NoCall EXCEPT !.op = route, !.userId = session,
                   !.anonymous = ~authenticated]

ApiStart ==
    \E session \in Sessions :
      /\ IF Admitted("start", session # 0)
         THEN StartGameRoute(session)
         ELSE nextGameId <= MaxGames /\ Refuse("start", 0)
      /\ call' = ApiCall("start", session, session # 0)
      /\ UNCHANGED <<client, twin, conn>>

ApiNextRound ==
    \E authenticated \in BOOLEAN, gameId \in GameIdInputs :
      /\ IF Admitted("next-round", authenticated)
         THEN NextRoundRoute(gameId)
         ELSE Refuse("next-round", gameId)
      /\ call' = ApiCall("next-round", 0, authenticated)
      /\ UNCHANGED <<client, twin, conn>>

ApiGuess ==
    \E authenticated \in BOOLEAN, gameId \in GameIdInputs :
      \E playerHand \in ClientHands(gameId) :
        \E placementIndex \in PlacementInputs(playerHand) :
          \E cardId \in CardIdInputs, roundNumber \in RoundInputs :
            /\ IF Admitted("guess", authenticated)
               THEN GuessRoute(gameId, cardId, playerHand, placementIndex,
                               roundNumber)
               ELSE Refuse("guess", gameId)
            /\ call' = ApiCall("guess", 0, authenticated)
            /\ UNCHANGED <<client, twin, conn>>

ApiLoseRound ==
    \E authenticated \in BOOLEAN, gameId \in GameIdInputs :
      \E cardId \in CardIdInputs, roundNumber \in RoundInputs :
        /\ IF Admitted("lose-round", authenticated)
           THEN LoseRoundRoute(gameId, cardId, roundNumber)
           ELSE Refuse("lose-round", gameId)
        /\ call' = ApiCall("lose-round", 0, authenticated)
        /\ UNCHANGED <<client, twin, conn>>

ApiHistory ==
    \E session \in Sessions :
      /\ IF Admitted("history", session # 0)
         THEN HistoryRoute(session)
         ELSE Refuse("history", 0)
      /\ call' = ApiCall("history", session, session # 0)
      /\ UNCHANGED <<client, twin, conn>>

ApiDemoStart ==
    \E authenticated \in BOOLEAN :
      \E drawn \in getRandomCards(InitialCardCount, {}) :
        \E newCards \in getRandomCards(1, { drawn[i] : i \in 1..Len(drawn) }) :
          /\ IF Admitted("demo-start", authenticated)
             THEN DemoStartRoute(drawn, newCards)
             ELSE Refuse("demo-start", 0)
          /\ call' = ApiCall("demo-start", 0, authenticated)
          /\ UNCHANGED <<client, twin, conn>>

ApiDemoGuess ==
    \E authenticated \in BOOLEAN, initialCards \in DemoHands :
      \E placementIndex \in PlacementInputs(initialCards) :
        \E newCardId \in CardIdInputs :
          /\ IF Admitted("demo-guess", authenticated)
             THEN DemoGuessRoute(initialCards, newCardId, placementIndex)
             ELSE Refuse("demo-guess", 0)
          /\ call' = ApiCall("demo-guess", 0, authenticated)
          /\ UNCHANGED <<client, twin, conn>>

\* Every route of the game, requested with or without a session, on a
\* catalog of NumCardsSmall cards.
InitApi ==
    /\ InitTables(NumCardsSmall)
    /\ judge = NoJudge

NextApi ==
    \/ ApiStart
    \/ ApiNextRound
    \/ ApiGuess
    \/ ApiLoseRound
    \/ ApiHistory
    \/ ApiDemoStart
    \/ ApiDemoGuess

SpecApi == InitApi /\ [][NextApi]_vars

\* ------------------------------- guesses and timeouts on eight cards
\* The state right after user 1 started a game on a catalog of
\* NumCardsTimeout cards and drew cards 1, 2 and 3: five rounds can be
\* resolved, by guesses and by timeouts, one at a time.
InitTimeout ==
    /\ cards = Catalog(NumCardsTimeout)
    /\ LET tx == startGame(Db(<<>>, {}, 1), 1, SortByIndex(<<1, 2, 3>>), 0)
       IN  /\ games = tx.db.games
           /\ game_cards = tx.db.game_cards
           /\ nextGameId = tx.db.nextGameId
    /\ resp = NoResp
    /\ reqs = EmptyBag
    /\ NoCallers
    /\ judge = NoJudge

NextTimeout == Guess \/ LoseRound

SpecTimeout == InitTimeout /\ [][NextTimeout]_vars

\* ------------------------- one guess put to the game and to the demo
\* A guess is resolved for the stored game (twin.phase "ask"), then the demo
\* guess is asked with the same hand, card and placement index ("replay"),
\* and the two answers are held side by side ("done"): that of the game in
\* twin.resp, that of the demo in resp.  The hands are those of a guess and
\* those of a demo guess.
InitSame ==
    /\ cards = Catalog(NumCards)
    /\ LET tx == startGame(Db(<<>>, {}, 1), 1, SortByIndex(<<1, 2, 3>>), 0)
       IN  /\ games = tx.db.games
           /\ game_cards = tx.db.game_cards
           /\ nextGameId = tx.db.nextGameId
    /\ resp = NoResp
    /\ reqs = EmptyBag
    /\ judge = NoJudge
    /\ call = NoCall
    /\ client = NoClient
    /\ conn = NoTx
    /\ twin = [NoTwin EXCEPT !.phase = "ask"]

SameGuess ==
    /\ twin.phase = "ask"
    /\ \E gameId \in GameIdInputs :
         \E playerHand \in ClientHands(gameId) \cup DemoHands :
           \E placementIndex \in PlacementInputs(playerHand) :
             \E cardId \in CardIdInputs, roundNumber \in RoundInputs :
               /\ GuessRoute(gameId, cardId, playerHand, placementIndex, roundNumber)
               /\ call' = GuessCall(gameId, cardId, playerHand, placementIndex,
                                    roundNumber)
    /\ twin' = [twin EXCEPT !.phase = "replay"]
    /\ UNCHANGED <<client, conn>>

SameDemoGuess ==
    /\ twin.phase = "replay"
    /\ DemoGuessRoute(call.hand, call.cardId, call.placementIndex)
    /\ twin' = [twin EXCEPT !.phase = "done", !.resp = resp]
    /\ UNCHANGED <<call, client, conn>>

NextSame == SameGuess \/ SameDemoGuess \/ Deliver

SpecSame == InitSame /\ [][NextSame]_vars

\* ------------------------------ next-round interleaved at its awaits
\* The next-round handler awaits getInvolvedCardIds, then getRandomCards,
\* and answers; a guess or a timeout can be resolved between the two.
ArriveNextRound(gameId) ==
    /\ Arrive([Idle EXCEPT !.op = "next-round", !.pc = "involved",
                           !.gameId = gameId])
    /\ UNCHANGED <<cards, games, game_cards, nextGameId, resp, judge>>

\* await getInvolvedCardIds(req.db, gameId)
StepGetInvolvedCardIds(req) ==
    /\ req.pc = "involved"
    /\ Suspend(req, [req EXCEPT
                       !.involved = getInvolvedCardIds(game_cards, req.gameId),
                       !.pc = "draw"])
    /\ UNCHANGED <<cards, games, game_cards, nextGameId, resp, judge>>

\* await getRandomCards(req.db, 1, involvedCardIds), then the response.
StepGetRandomCards(req) ==
    /\ req.pc = "draw"
    /\ \E newCards \in getRandomCards(1, req.involved) :
         Finish(req, NextRoundResp(req.gameId, newCards))
    /\ UNCHANGED <<cards, games, game_cards, nextGameId, judge>>

NextRoundArrives ==
    /\ \E gameId \in GameIdInputs : ArriveNextRound(gameId)
    /\ UNCHANGED callers

GetInvolvedCardIdsRuns ==
    /\ \E req \in BagToSet(reqs) : StepGetInvolvedCardIds(req)
    /\ UNCHANGED callers

GetRandomCardsRuns ==
    /\ \E req \in BagToSet(reqs) : StepGetRandomCards(req)
    /\ UNCHANGED callers

NextRace ==
    \/ NextRoundArrives
    \/ GetInvolvedCardIdsRuns
    \/ GetRandomCardsRuns
    \/ Guess
    \/ LoseRound

SpecRace == InitConc /\ [][NextRace]_vars

\* ------------------------------------ a game played through the page
\* The thresholds the page checks on its own: newCards.length >= 6 and
\* lostRoundsCount + 1 >= 3.
ClientWinHand == 6
ClientLoseThreshold == 3

\* The setup effect on the data HomePage passed in location.state.
SetupEffect(gameData, demoFlag) ==
    [NoClient EXCEPT
       !.playerCards = gameData.initialCards,
       !.currentRoundCard = IF demoFlag THEN gameData.newCard ELSE 0,
       !.gameId = gameData.gameId,
       !.isDemo = demoFlag,
       !.wonCardsCount = Len(gameData.initialCards),
       !.timerActive = demoFlag /\ gameData.newCard # 0,
       !.timeLeft = RoundSeconds]

\* What the component returns: the error alert, the summary of the ended
\* game, or the game itself.
Rendered ==
    IF client.error # "" THEN "error"
    ELSE IF client.gameOutcome # "null" THEN "summary"
    ELSE "game"

\* renderPlacementButtons: the indices that have a 'Place Here' button.
PlacementButtons ==
    IF \/ Rendered # "game"
       \/ client.currentRoundCard = 0
       \/ client.proposedPlacementIndex # NoIndex
    THEN {}
    ELSE 0..Len(client.playerCards)

\* 'Ready for Next Round!' and 'Start First Round!'.
NextRoundButton ==
    /\ Rendered = "game"
    /\ client.currentRoundCard = 0
    /\ client.roundOutcomeMessage

StartFirstRoundButton ==
    /\ Rendered = "game"
    /\ client.currentRoundCard = 0
    /\ ~client.isDemo
    /\ ~client.roundOutcomeMessage

\* A call of an API function that waits for its answer.  hand, round and
\* lost are playerCards, roundNumber and lostRoundsCount as the handler that
\* made the call closed over them.
Pending(op, cardId, index) ==
    [op |-> op, cardId |-> cardId, index |-> index,
     hand |-> client.playerCards, round |-> client.roundNumber,
     lost |-> client.lostRoundsCount]

\* playerHand as the page sends it: the bad_luck_index of each card held.
IndexValues(cardIds) == [i \in 1..Len(cardIds) |-> Idx(cardIds[i])]

\* handleNextRound up to its await.
ClickNextRound ==
    /\ NextRoundButton \/ StartFirstRoundButton
    /\ ~client.isDemo
    /\ client.gameOutcome = "null"
    /\ BagCardinality(client.pending) < MaxPending
    /\ client' = [client EXCEPT
                    !.error = "",
                    !.roundOutcomeMessage = FALSE,
                    !.currentRoundCard = 0,
                    !.proposedPlacementIndex = NoIndex,
                    !.pending = @ (+) SetToBag({Pending("next-round", 0, NoIndex)})]
    /\ call' = [NoCall EXCEPT !.op = "next-round", !.gameId = client.gameId]
    /\ UNCHANGED <<cards, games, game_cards, nextGameId, resp, reqs, judge, twin, conn>>

\* handleNextRound from the answer of getNextRoundCard on.
AfterNextRound(page, req, result) ==
    LET rest == [page EXCEPT !.pending = @ (-) SetToBag({req})]
    IN  IF result.status = 200
        THEN [rest EXCEPT !.currentRoundCard = result.newCard.id,
                          !.roundNumber = @ + 1,
                          !.timeLeft = RoundSeconds,
                          !.timerActive = TRUE,
                          !.delivered = Append(@, result.newCard.id)]
        ELSE IF result.status = 404
        THEN [rest EXCEPT !.error = "No more unique cards",
                          !.gameOutcome = "Lost"]
        ELSE [rest EXCEPT !.error = "Failed to start next round"]

NextRoundAnswered ==
    /\ \E req \in BagToSet(client.pending) :
         /\ req.op = "next-round"
         /\ NextRoundRoute(client.gameId)
         /\ client' = AfterNextRound(client, req, resp')
    /\ UNCHANGED <<call, twin, conn>>

\* handleGuess up to its await.
ClickGuess ==
    /\ \E index \in PlacementButtons :
         LET op == IF client.isDemo THEN "demo-guess" ELSE "guess"
         IN  /\ client' = [client EXCEPT
                             !.proposedPlacementIndex = index,
                             !.timerActive = FALSE,
                             !.pending = @ (+) SetToBag({Pending(op,
                                              client.currentRoundCard, index)})]
             /\ call' = [GuessCall(client.gameId, client.currentRoundCard,
                                   IndexValues(client.playerCards), index,
                                   client.roundNumber) EXCEPT !.op = op]
    /\ client.isDemo =>
         client.wonCardsCount + client.lostRoundsCount
           < InitialCardCount + MaxDemoGuesses
    /\ UNCHANGED <<cards, games, game_cards, nextGameId, resp, reqs, judge, twin, conn>>

\* handleGuess from the answer on: the try block, the catch block and the
\* finally block.
AfterGuess(page, req, result) ==
    LET rest == [page EXCEPT !.pending = @ (-) SetToBag({req}),
                             !.proposedPlacementIndex = NoIndex]
        newCards == SortByIndex(Append(req.hand, result.cardId))
        reported == IF result.gameOutcome # "null" /\ ~page.isDemo
                    THEN result.gameOutcome
                    ELSE "null"
    IN  IF result.status # 200
        THEN [rest EXCEPT !.error = "Failed to submit guess",
                          !.timerActive = TRUE]
        ELSE IF result.isCorrect
        THEN [rest EXCEPT
                !.roundOutcomeMessage = TRUE,
                !.playerCards = newCards,
                !.wonCardsCount = @ + 1,
                !.gameOutcome =
                    IF reported # "null" THEN reported
                    ELSE IF Len(newCards) >= ClientWinHand /\ ~page.isDemo
                    THEN "Won"
                    ELSE @]
        ELSE [rest EXCEPT
                !.roundOutcomeMessage = TRUE,
                !.lostRoundsCount = @ + 1,
                !.gameOutcome =
                    IF reported # "null" THEN reported
                    ELSE IF req.lost + 1 >= ClientLoseThreshold /\ ~page.isDemo
                    THEN "Lost"
                    ELSE @]

GuessAnswered ==
    /\ \E req \in BagToSet(client.pending) :
         /\ req.op \in {"guess", "demo-guess"}
         /\ IF req.op = "guess"
            THEN GuessRoute(client.gameId, req.cardId, IndexValues(req.hand),
                            req.index, req.round)
            ELSE DemoGuessRoute(IndexValues(req.hand), req.cardId, req.index)
         /\ client' = AfterGuess(client, req, resp')
    /\ UNCHANGED <<call, twin, conn>>

\* The callback of setTimeout in the timer effect.
TimerTick ==
    /\ client.timerActive
    /\ client.timeLeft > 0
    /\ client' = [client EXCEPT !.timeLeft = @ - 1]
    /\ UNCHANGED <<cards, games, game_cards, nextGameId, resp, reqs, judge,
                   call, twin, conn>>

\* The timer effect at timeLeft 0, and handleTimeout up to its await; for a
\* demo handleTimeout ends here.
HandleTimeout ==
    /\ client.timerActive
    /\ client.timeLeft = 0
    /\ client.currentRoundCard # 0
    /\ LET stopped == [client EXCEPT !.timerActive = FALSE,
                                     !.roundOutcomeMessage = TRUE,
                                     !.lostRoundsCount = @ + 1]
       IN  IF client.isDemo
           THEN /\ client' = [stopped EXCEPT !.gameOutcome =
                                 IF client.lostRoundsCount + 1 >= ClientLoseThreshold
                                 THEN "Lost" ELSE @]
                /\ UNCHANGED call
           ELSE /\ client' = [stopped EXCEPT !.pending =
                                 @ (+) SetToBag({Pending("lose-round",
                                          client.currentRoundCard, NoIndex)})]
                /\ call' = LoseRoundCall(client.gameId, client.currentRoundCard,
                                         client.roundNumber)
    /\ UNCHANGED <<cards, games, game_cards, nextGameId, resp, reqs, judge, twin, conn>>

\* handleTimeout from the answer of loseRound on.
AfterTimeout(page, req, result) ==
    LET rest == [page EXCEPT !.pending = @ (-) SetToBag({req})]
    IN  IF result.status # 200
        THEN [rest EXCEPT !.error = "Failed to record timeout loss"]
        ELSE IF result.gameOutcome = "Lost"
        THEN [rest EXCEPT !.gameOutcome = "Lost"]
        ELSE rest

TimeoutAnswered ==
    /\ \E req \in BagToSet(client.pending) :
         /\ req.op = "lose-round"
         /\ LoseRoundRoute(client.gameId, req.cardId, req.round)
         /\ client' = AfterTimeout(client, req, resp')
    /\ UNCHANGED <<call, twin, conn>>

\* The page right after HomePage navigated to it: with the game user 1
\* started on cards 1, 2 and 3, or with a demo of those cards and one more.
InitPage ==
    /\ cards = Catalog(NumCards)
    /\ resp = NoResp
    /\ reqs = EmptyBag
    /\ call = NoCall
    /\ twin = NoTwin
    /\ conn = NoTx
    /\ judge = NoJudge
    /\ LET initialCards == SortByIndex(<<1, 2, 3>>)
           tx == startGame(Db(<<>>, {}, 1), 1, initialCards, 0)
       IN  \/ /\ games = tx.db.games
              /\ game_cards = tx.db.game_cards
              /\ nextGameId = tx.db.nextGameId
              /\ client = SetupEffect([gameId |-> 1,
                                       initialCards |-> initialCards,
                                       newCard |-> 0], FALSE)
           \/ /\ games = <<>>
              /\ game_cards = {}
              /\ nextGameId = 1
              /\ \E newCards \in getRandomCards(1, {1, 2, 3}) :
                   client = SetupEffect([gameId |-> 0,
                                         initialCards |-> initialCards,
                                         newCard |-> newCards[1]], TRUE)

NextPage ==
    \/ ClickNextRound
    \/ NextRoundAnswered
    \/ ClickGuess
    \/ GuessAnswered
    \/ TimerTick
    \/ HandleTimeout
    \/ TimeoutAnswered

SpecPage == InitPage /\ [][NextPage]_vars

\* ------------------------------------- rounds resolved on a game won
\* The state after user 1 started a game on a catalog of NumCardsWon cards,
\* drew cards 1, 2 and 3 and won cards 4, 5 and 6 in three guesses, the third
\* of which ended the game as Won; the rounds that follow are resolved one at
\* a time.
InitWon ==
    /\ cards = Catalog(NumCardsWon)
    /\ LET tx == startGame(Db(<<>>, {}, 1), 1, SortByIndex(<<1, 2, 3>>), 0)
           gc1 == recordRoundOutcome(tx.db.game_cards, 1, 4, "won", 1, TRUE)
           gc2 == recordRoundOutcome(gc1, 1, 5, "won", 1, TRUE)
           gc3 == recordRoundOutcome(gc2, 1, 6, "won", 1, TRUE)
       IN  /\ games = endGame(tx.db.games, 1,
                              GuessOutcome(getWonCardsCount(gc3, 1),
                                           getLostRoundsCount(gc3, 1)),
                              Len(InHand(getGameCards(gc3, 1))))
           /\ game_cards = gc3
           /\ nextGameId = tx.db.nextGameId
    /\ resp = NoResp
    /\ reqs = EmptyBag
    /\ NoCallers
    /\ judge = NoJudge

NextWon == Guess \/ LoseRound

SpecWon == InitWon /\ [][NextWon]_vars

\* --------------------------------------- requests of the users on a game
\* The routes of a game called with the session of any user; req.user.id is
\* recorded in call, no handler of these routes reads it.
OwnerCall(route, userId, gameId) ==
    [ApiCall(route, userId, TRUE) EXCEPT !.gameId = gameId]

UserNextRound ==
    \E userId \in Users, gameId \in GameIdInputs :
      /\ Admitted("next-round", TRUE)
      /\ NextRoundRoute(gameId)
      /\ call' = OwnerCall("next-round", userId, gameId)
      /\ UNCHANGED <<client, twin, conn>>

UserGuess ==
    \E userId \in Users, gameId \in GameIdInputs :
      \E playerHand \in ClientHands(gameId) :
        \E placementIndex \in PlacementInputs(playerHand) :
          \E cardId \in CardIdInputs, roundNumber \in RoundInputs :
            /\ Admitted("guess", TRUE)
            /\ GuessRoute(gameId, cardId, playerHand, placementIndex,
                          roundNumber)
            /\ call' = OwnerCall("guess", userId, gameId)
            /\ UNCHANGED <<client, twin, conn>>

UserLoseRound ==
    \E userId \in Users, gameId \in GameIdInputs :
      \E cardId \in CardIdInputs, roundNumber \in RoundInputs :
        /\ Admitted("lose-round", TRUE)
        /\ LoseRoundRoute(gameId, cardId, roundNumber)
        /\ call' = OwnerCall("lose-round", userId, gameId)
        /\ UNCHANGED <<client, twin, conn>>

NextOwner == UserNextRound \/ UserGuess \/ UserLoseRound

\* From the state in which user 1 has started game 1.
SpecOwner == InitConc /\ [][NextOwner]_vars

\* ----------------------- startGame interleaved on the shared connection
\* Every handler uses the one connection dbPromise resolves to, and SQLite
\* keeps at most one transaction per connection: BEGIN fails while one is
\* open, COMMIT and ROLLBACK fail while none is, and any statement run while
\* one is open belongs to it, whichever request sent it.  Each action below
\* is one awaited statement of startGame.

\* POST /api/games/start up to the call of startGame.
ArriveStart(userId, drawn) ==
    /\ nextGameId <= MaxTxGames
    /\ drawn \in getRandomCards(InitialCardCount, {})
    /\ Len(drawn) = InitialCardCount
    /\ Arrive([Idle EXCEPT !.op = "start", !.pc = "begin", !.userId = userId,
                           !.initialCards = SortByIndex(drawn)])
    /\ UNCHANGED <<cards, games, game_cards, nextGameId, resp, judge, conn>>

\* await db.run('BEGIN TRANSACTION;')
StepBegin(req) ==
    /\ req.pc = "begin"
    /\ IF conn.active
       THEN /\ Suspend(req, [req EXCEPT !.pc = "catch"])
            /\ UNCHANGED conn
       ELSE /\ Suspend(req, [req EXCEPT !.pc = "header"])
            /\ conn' = [active |-> TRUE,
                        snapshot |-> Db(games, game_cards, nextGameId)]
    /\ UNCHANGED <<cards, games, game_cards, nextGameId, resp, judge>>

\* await db.run(`INSERT INTO games ...`); gameId = result.lastID
StepInsertGame(req) ==
    /\ req.pc = "header"
    /\ LET db == InsertGame(Db(games, game_cards, nextGameId), req.userId)
       IN  /\ games' = db.games
           /\ nextGameId' = db.nextGameId
    /\ Suspend(req, [req EXCEPT !.pc = "card", !.gameId = nextGameId])
    /\ UNCHANGED <<cards, game_cards, resp, judge, conn>>

\* await insertCardStmt.run(gameId, card.id), once per initial card.
StepInsertInitial(req) ==
    /\ req.pc = "card"
    /\ LET cardId == req.initialCards[req.inserted + 1]
       IN  IF ~InsertAllowed(games, game_cards, req.gameId, cardId)
           THEN /\ Suspend(req, [req EXCEPT !.pc = "catch"])
                /\ UNCHANGED game_cards
           ELSE /\ game_cards' = game_cards \cup {InitialRow(req.gameId, cardId)}
                /\ Suspend(req, [req EXCEPT
                                   !.inserted = @ + 1,
                                   !.pc = IF req.inserted + 1 = Len(req.initialCards)
                                          THEN "commit" ELSE "card"])
    /\ UNCHANGED <<cards, games, nextGameId, resp, judge, conn>>

\* await db.run('COMMIT;'), and the 201 of the route.
StepCommit(req) ==
    /\ req.pc = "commit"
    /\ IF conn.active
       THEN /\ conn' = NoTx
            /\ Finish(req, [NoResp EXCEPT !.op = "start", !.status = 201,
                                          !.gameId = req.gameId,
                                          !.cardList = req.initialCards])
       ELSE /\ Suspend(req, [req EXCEPT !.pc = "catch"])
            /\ UNCHANGED <<conn, resp>>
    /\ UNCHANGED <<cards, games, game_cards, nextGameId, judge>>

\* The catch block: await db.run('ROLLBACK;'), which undoes the open
\* transaction or throws when there is none; either way the error reaches
\* the catch block of the route, which answers 500.
StepRollback(req) ==
    /\ req.pc = "catch"
    /\ IF conn.active
       THEN /\ games' = conn.snapshot.games
            /\ game_cards' = conn.snapshot.game_cards
            /\ nextGameId' = conn.snapshot.nextGameId
            /\ conn' = NoTx
       ELSE UNCHANGED <<games, game_cards, nextGameId, conn>>
    /\ Finish(req, ErrorResp("start", 500, 0))
    /\ UNCHANGED <<cards, judge>>

StartArrives ==
    /\ \E userId \in Users :
         \E drawn \in getRandomCards(InitialCardCount, {}) :
           ArriveStart(userId, drawn)
    /\ UNCHANGED <<call, client, twin>>

BeginRuns ==
    /\ \E req \in BagToSet(reqs) : StepBegin(req)
    /\ UNCHANGED <<call, client, twin>>

InsertGameRuns ==
    /\ \E req \in BagToSet(reqs) : StepInsertGame(req)
    /\ UNCHANGED <<call, client, twin>>

InsertInitialRuns ==
    /\ \E req \in BagToSet(reqs) : StepInsertInitial(req)
    /\ UNCHANGED <<call, client, twin>>

CommitRuns ==
    /\ \E req \in BagToSet(reqs) : StepCommit(req)
    /\ UNCHANGED <<call, client, twin>>

RollbackRuns ==
    /\ \E req \in BagToSet(reqs) : StepRollback(req)
    /\ UNCHANGED <<call, client, twin>>

\* Starts interleaved with each other and with timeouts handled in one piece.
NextTx ==
    \/ StartArrives
    \/ BeginRuns
    \/ InsertGameRuns
    \/ InsertInitialRuns
    \/ CommitRuns
    \/ RollbackRuns
    \/ LoseRound

\* A catalog of exactly the cards a start draws, and no game yet.
InitTx ==
    /\ InitTables(InitialCardCount)
    /\ judge = NoJudge

SpecTx == InitTx /\ [][NextTx]_vars

\* ======================================================================
\* Properties
\* ======================================================================
\* The sequence with v put at 0-based position p of hand, 0 <= p <= Len(hand).
InsertAt(hand, p, v) ==
    [i \in 1..(Len(hand) + 1) |->
        IF i <= p THEN hand[i] ELSE IF i = p + 1 THEN v ELSE hand[i - 1]]

NonDecreasing(t) == \A i \in 1..(Len(t) - 1) : t[i] <= t[i + 1]

StrictlyIncreasing(t) == \A i \in 1..(Len(t) - 1) : t[i] < t[i + 1]

WonRows(gameId) == { row \in RowsOf(game_cards, gameId) : row.status = "won" }

\* The rounds lost as the specification counts them: wrong guesses and timeouts.
LostOrDiscardedRows(gameId) ==
    { row \in RowsOf(game_cards, gameId) : row.status \in {"lost", "discarded"} }

InitialRows(gameId) ==
    { row \in RowsOf(game_cards, gameId) : row.status = "initial" }

\* C1: for every hand and every placement index in 0..Len(hand) the guess is
\* judged correct iff the hand with the new index inserted at that position is
\* non-decreasing over every adjacent pair (ties are correct); for a strictly
\* increasing hand and a new value not in it, exactly the insertion point (the
\* number of smaller elements) is judged correct.
C1_JudgeIffNonDecreasing ==
    (judge.verdict # "none" /\ judge.placementIndex \in 0..Len(judge.hand)) =>
       LET trial == InsertAt(judge.hand, judge.placementIndex, judge.newIdx)
           point == Cardinality({ i \in 1..Len(judge.hand) :
                                    judge.hand[i] < judge.newIdx })
       IN  /\ (judge.verdict = "correct") <=> NonDecreasing(trial)
           /\ ( /\ StrictlyIncreasing(judge.hand)
                /\ \A i \in 1..Len(judge.hand) : judge.hand[i] # judge.newIdx )
              => ((judge.verdict = "correct") <=> (judge.placementIndex = point))

\* A tie judged correct: the new index equals a neighbour in a longer hand.
C1_Witness ==
    /\ judge.verdict = "correct"
    /\ Len(judge.hand) >= 2
    /\ judge.placementIndex \in 1..Len(judge.hand)
    /\ judge.hand[judge.placementIndex] = judge.newIdx

\* C2: after a correct guess in a game with fewer than 3 rounds lost, the
\* response reports Won and the Game record is Won exactly when that guess is
\* the third won card; on the first and second the response has no outcome
\* and the Game record is still in progress.
C2_WonOnThirdCorrect ==
    (resp.op = "guess" /\ resp.status = 200 /\ resp.isCorrect
       /\ Cardinality(LostOrDiscardedRows(resp.gameId)) < 3) =>
       LET won == Cardinality(WonRows(resp.gameId))
       IN  /\ won >= 1
           /\ won < 3 => /\ resp.gameOutcome = "null"
                         /\ games[resp.gameId].outcome = ""
                         /\ games[resp.gameId].end_time = 0
           /\ won = 3 => /\ resp.gameOutcome = "Won"
                         /\ games[resp.gameId].outcome = "Won"

C2_Witness ==
    /\ resp.op = "guess" /\ resp.status = 200 /\ resp.isCorrect
    /\ Cardinality(WonRows(resp.gameId)) = 3
    /\ resp.gameOutcome = "Won"
    /\ games[resp.gameId].outcome = "Won"

\* C3: a game with three lost rounds, counting wrong guesses and timeouts
\* alike, and fewer than three won cards is Lost.
C3_LostOnThirdLostOrDiscarded ==
    \A g \in DOMAIN games :
       (Cardinality(LostOrDiscardedRows(g)) >= 3 /\ Cardinality(WonRows(g)) < 3)
          => games[g].outcome = "Lost"

\* C4: once a Game record's outcome is Won or Lost it keeps that outcome.
C4_OutcomeTerminal ==
    [][ \A g \in DOMAIN games :
           games[g].outcome \in {"Won", "Lost"} =>
              games'[g].outcome = games[g].outcome ]_vars

\* C5: the termination write is applied to a game at most once (end_time
\* counts the writes of endGame to the Game record).
C5_EndGameAtMostOnce ==
    \A g \in DOMAIN games : games[g].end_time <= 1

\* C6: the card next-round returns is not in the game's event log, in any status.
C6_NextRoundCardNotInvolved ==
    (resp.op = "next-round" /\ resp.status = 200) =>
       \A row \in game_cards :
          ~(row.game_id = resp.gameId /\ row.card_id = resp.cardId)

\* A card returned for a game that has lost and discarded cards.
C6_Witness ==
    /\ resp.op = "next-round" /\ resp.status = 200
    /\ \E row \in RowsOf(game_cards, resp.gameId) : row.status = "lost"
    /\ \E row \in RowsOf(game_cards, resp.gameId) : row.status = "discarded"

\* C7: a successful start returns exactly 3 pairwise distinct cards sorted
\* ascending by bad_luck_index, and the game's event log is then exactly one
\* initial event for each of them.
C7_StartYieldsThreeSortedInitial ==
    (resp.op = "start" /\ resp.status = 201) =>
       /\ Len(resp.cardList) = 3
       /\ \A i, j \in 1..Len(resp.cardList) :
             i < j => Idx(resp.cardList[i]) < Idx(resp.cardList[j])
       /\ RowsOf(game_cards, resp.gameId) =
             { InitialRow(resp.gameId, resp.cardList[i]) : i \in 1..Len(resp.cardList) }
       /\ Cardinality(RowsOf(game_cards, resp.gameId)) = 3

\* A start whose cards come in an order that is not the order of their ids.
C7_Witness ==
    /\ resp.op = "start" /\ resp.status = 201
    /\ resp.cardList[1] > resp.cardList[2]

\* No two events of the log share their game and card.
UniqueGameCardPairs ==
    \A r1, r2 \in game_cards :
       (r1.game_id = r2.game_id /\ r1.card_id = r2.card_id) => r1 = r2

\* C8: each (game, card) pair appears at most once in the event log, and no
\* step, of requests run alone or interleaved, adds an event for a pair that
\* is already recorded or removes or rewrites a recorded event.
C8_EachGameCardOnce ==
    /\ []UniqueGameCardPairs
    /\ [][ /\ game_cards \subseteq game_cards'
           /\ \A row \in game_cards' \ game_cards :
                 \A old \in game_cards :
                    ~(old.game_id = row.game_id /\ old.card_id = row.card_id)
         ]_vars

\* A timeout for a card was rejected while the guess that recorded the same
\* card of the same game is still being processed.
C8_Witness ==
    \E guess, timeout \in BagToSet(reqs) :
       /\ guess.op = "guess" /\ guess.pc \in {"cards", "won", "lost", "end"}
       /\ timeout.op = "lose-round" /\ timeout.pc = "catch"
       /\ timeout.gameId = guess.gameId /\ timeout.cardId = guess.cardId
       /\ \E row \in game_cards :
             /\ row.game_id = guess.gameId /\ row.card_id = guess.cardId
             /\ row.status \in {"won", "lost"}

\* C9: a timeout is never recorded for a round of a game for which a guess was
\* already recorded.
C9_NoTimeoutAfterGuessOfSameRound ==
    [][ \A row \in game_cards' \ game_cards :
           row.status = "discarded" =>
              ~\E old \in game_cards :
                  /\ old.game_id = row.game_id
                  /\ old.round = row.round
                  /\ old.status \in {"won", "lost"} ]_vars

\* Every Game row has its three initial events, and every event its Game row.
EveryGameHasInitialEvents ==
    /\ \A g \in DOMAIN games : Cardinality(InitialRows(g)) = InitialCardCount
    /\ \A row \in game_cards : row.game_id \in DOMAIN games

\* C10: start-game is all-or-nothing: in every state each Game row has its
\* three initial events, and a start that failed, at whichever statement,
\* left the tables as they were.
C10_StartAllOrNothing ==
    /\ []EveryGameHasInitialEvents
    /\ [][ (resp'.op = "start" /\ resp'.status = 500) =>
              UNCHANGED <<games, game_cards, nextGameId>> ]_vars

\* A start that failed at an insert of an initial event, after the header insert.
C10_Witness ==
    /\ resp.op = "start" /\ resp.status = 500
    /\ resp.failedStmt \in 4..5
    /\ games = <<>> /\ game_cards = {}

\* The game's event log has reached a threshold as the handlers count it.
ThresholdReached(g) ==
    \/ getWonCardsCount(game_cards, g) >= WinThreshold
    \/ getLostRoundsCount(game_cards, g) >= LoseThreshold

\* C11: round resolution is atomic across the event log and the Game record:
\* whether or not a resolution failed on the way, in no state has a game's
\* event log reached a win or lose threshold while its Game record is still
\* in progress.
C11_ResolutionAtomic ==
    \A g \in DOMAIN games :
       ThresholdReached(g) => games[g].outcome \in {"Won", "Lost"}

\* C12: the card to guess that next-round and the demo start return carries
\* its identifier, name and image and nothing else: no bad_luck_index.
C12_CandidateIndexHidden ==
    (resp.op \in {"next-round", "demo-start"} /\ resp.status = 200) =>
       /\ DOMAIN resp.newCard = {"id", "name", "image"}
       /\ resp.newCard.id = resp.cardId
       /\ resp.badLuckIndex = 0

\* A demo start answered with three cards and a fourth to guess.
C12_Witness ==
    /\ resp.op = "demo-start" /\ resp.status = 200
    /\ Len(resp.cardList) = 3
    /\ resp.newCard.id \in CardIds
    /\ \A i \in 1..Len(resp.cardList) : resp.cardList[i] # resp.newCard.id

\* C13: the bad_luck_index of a card that is neither in the player's hand nor
\* resolved stays hidden: on two catalogs that differ in that index only,
\* every request (next-round, demo start, demo guess with any card id, guess
\* on another card) gets the same response body.
C13_HiddenIndexHasNoEffect ==
    twin.phase = "done" => Body(cards, resp) = Body(twin.cards, twin.resp)

\* C14 as claimed: the won-count a guess returns is the number of cards in
\* the updated hand, initial cards included (4 after the first correct guess).
C14_WonCountCountsHand ==
    (resp.op = "guess" /\ resp.status = 200) =>
       resp.cardsWonCount = Len(resp.cardList)

\* C14, amended: the won-count a guess returns is the number of won events of
\* the game, initial cards excluded, and the updated hand has the three
\* initial cards and the won ones: after a start and one correct guess the
\* hand has 4 cards and the won-count is 1.
C14_WonCountCountsWonEvents ==
    (resp.op = "guess" /\ resp.status = 200) =>
       /\ resp.cardsWonCount = Cardinality(WonRows(resp.gameId))
       /\ Len(resp.cardList) = InitialCardCount + resp.cardsWonCount
       /\ (resp.isCorrect /\ Cardinality(WonRows(resp.gameId)) = 1) =>
             (Len(resp.cardList) = 4 /\ resp.cardsWonCount = 1)

\* The first correct guess of a game.
C14_Witness ==
    /\ resp.op = "guess" /\ resp.status = 200 /\ resp.isCorrect
    /\ Len(resp.cardList) = 4
    /\ resp.cardsWonCount = 1
    /\ Cardinality(RowsOf(game_cards, resp.gameId)) = 4

\* C15: a guess whose placement index is out of range (negative, or greater
\* than the length of the hand sent) is rejected as invalid input before any
\* persistence call: no event is recorded and the game is unchanged.
C15_OutOfRangeIndexRejected ==
    [][ ( /\ call'.op = "guess" /\ call'.failAt = 0
          /\ call'.placementIndex \notin 0..Len(call'.hand) )
        => (resp'.status = 400 /\ UNCHANGED <<games, game_cards>>) ]_vars

\* C16: a guess with a card identifier that is not in the catalog is answered
\* 404 (card not found) and leaves the tables as they were: no event is
\* added, counts and outcome are as before.
C16_UnknownCardRejected ==
    [][ (call'.op = "guess" /\ call'.failAt = 0 /\ call'.cardId \notin CardIds)
        => ( /\ resp'.op = "guess" /\ resp'.status = 404
             /\ UNCHANGED <<games, game_cards, nextGameId>> ) ]_vars

\* A guess on an unknown card answered 404 in a game that has resolved rounds.
C16_Witness ==
    /\ call.op = "guess" /\ call.failAt = 0 /\ call.cardId \notin CardIds
    /\ resp.op = "guess" /\ resp.status = 404
    /\ Cardinality(RowsOf(game_cards, call.gameId)) > InitialCardCount

\* C17: next-round, guess and lose-round on the identifier of a game that
\* does not exist are answered with a client error, return no card and write
\* no event.
C17_UnknownGameRejected ==
    (resp.op \in {"next-round", "guess", "lose-round"}
       /\ resp.gameId \notin DOMAIN games) =>
       /\ resp.status \in 400..499
       /\ resp.cardId = 0 /\ resp.newCard = NoCard
       /\ RowsOf(game_cards, resp.gameId) = {}

\* C18: next-round answers 404 (no cards remaining) exactly when every
\* catalog card is involved in the game and returns a catalog card otherwise;
\* it changes no table.
C18_NoCardsRemainingIffAllInvolved ==
    /\ [](resp.op = "next-round" =>
            /\ resp.status \in {200, 404}
            /\ resp.status = 404 <=>
                  CardIds \subseteq getInvolvedCardIds(game_cards, resp.gameId)
            /\ resp.status = 200 => resp.cardId \in CardIds)
    /\ [][ resp'.op = "next-round" =>
              UNCHANGED <<games, game_cards, nextGameId>> ]_vars

\* next-round refused for a game whose rounds have used up the catalog.
C18_Witness ==
    /\ resp.op = "next-round" /\ resp.status = 404
    /\ resp.gameId \in DOMAIN games
    /\ getInvolvedCardIds(game_cards, resp.gameId) = CardIds

\* C19: when the page force-terminates a game in progress after next-round
\* answered that no cards remain, the server's Game record is then Lost,
\* with its end time and collected count written.
C19_ForcedEndIsPersisted ==
    [][ (call'.op = "endGame" /\ games[call'.gameId].outcome = "") =>
           /\ games'[call'.gameId].outcome = "Lost"
           /\ games'[call'.gameId].end_time > 0 ]_vars

\* C20: a start on a catalog of fewer than 3 cards fails for want of cards,
\* before any statement of the transaction, and persists nothing: such a
\* catalog never has a Game row or an event row.
C20_StartNeedsThreeCards ==
    /\ [][ (resp'.op = "start" /\ Cardinality(cards) < 3) =>
              /\ resp'.status = 500 /\ resp'.failedStmt = 0
              /\ resp'.gameId = 0 /\ resp'.cardList = <<>>
              /\ UNCHANGED <<games, game_cards, nextGameId>> ]_vars
    /\ [](Cardinality(cards) < 3 =>
             (games = <<>> /\ game_cards = {} /\ nextGameId = 1))

\* A start refused on a catalog of two cards.
C20_Witness ==
    /\ Cardinality(cards) = 2
    /\ resp.op = "start" /\ resp.status = 500
    /\ games = <<>> /\ game_cards = {}

\* The events of one game of a history, compared with the rows of the log.
EventsComplete(entry) ==
    LET evs == entry.gameCards
    IN  /\ Len(evs) = Cardinality(RowsOf(game_cards, entry.id))
        /\ \A row \in RowsOf(game_cards, entry.id) :
              \E i \in 1..Len(evs) :
                 /\ evs[i].id = row.card_id
                 /\ evs[i].status = row.status
                 /\ evs[i].round = row.round
                 /\ evs[i].is_correct_guess = row.is_correct_guess
                 /\ evs[i].bad_luck_index = Idx(row.card_id)
        /\ \A i, j \in 1..Len(evs) :
              i < j => evs[i].bad_luck_index < evs[j].bad_luck_index

C22_DemoPersistsNothing ==
    [][ call'.op \in {"demo-start", "demo-guess"} =>
          /\ UNCHANGED <<cards, games, game_cards, nextGameId>>
          /\ \A g \in GameIdInputs :
                getRandomCards(1, getInvolvedCardIds(game_cards', g)) =
                   getRandomCards(1, getInvolvedCardIds(game_cards, g))
          /\ \A u \in Users :
                getGameHistory(games', game_cards', u) =
                   getGameHistory(games, game_cards, u) ]_vars

\* A demo guess judged correct while a game with a resolved round is stored.
C22_Witness ==
    /\ call.op = "demo-guess" /\ resp.op = "demo-guess"
    /\ resp.status = 200 /\ resp.isCorrect
    /\ games # <<>>
    /\ \E row \in game_cards : row.status # "initial"

\* C23: a request without an authenticated session for start, next-round,
\* guess, lose-round or history is answered 401 and changes no table; a demo
\* start or demo guess without a session is served (200, or 404 for a demo
\* guess on an unknown card).
C23_AuthenticationGate ==
    [][ call'.anonymous =>
          IF call'.op \in {"start", "next-round", "guess", "lose-round", "history"}
          THEN /\ resp'.op = call'.op /\ resp'.status = 401
               /\ UNCHANGED <<cards, games, game_cards, nextGameId>>
          ELSE /\ call'.op \in {"demo-start", "demo-guess"}
               /\ resp'.op = call'.op
               /\ resp'.status \in {200, 404}
               /\ call'.op = "demo-start" => resp'.status = 200 ]_vars

\* A timeout sent without a session for a stored game is refused.
C23_Witness ==
    /\ call.anonymous /\ call.op = "lose-round"
    /\ resp.op = "lose-round" /\ resp.status = 401
    /\ games # <<>>

\* The cards a game holds: those of its initial and won events.
HeldCards(gc, gameId) ==
    { row.card_id : row \in { r \in RowsOf(gc, gameId) :
                                 r.status \in {"initial", "won"} } }

\* C24: an accepted guess appends exactly one event, for the guessed card:
\* won if it was judged correct, and then the returned hand is the hand held
\* before plus that card and the lost-count is as before; lost if not, and
\* then the returned hand is the hand held before and the lost-count is one
\* more.  The returned hand is sorted ascending by index.
C24_GuessEffect ==
    [][ (resp'.op = "guess" /\ resp'.status = 200) =>
          LET g      == resp'.gameId
              added  == game_cards' \ game_cards
              hand   == resp'.cardList
              before == HeldCards(game_cards, g)
          IN  /\ game_cards \subseteq game_cards'
              /\ Cardinality(added) = 1
              /\ \A row \in added :
                    /\ row.game_id = g /\ row.card_id = resp'.cardId
                    /\ row.status = IF resp'.isCorrect THEN "won" ELSE "lost"
              /\ \A i, j \in 1..Len(hand) : i < j => Idx(hand[i]) < Idx(hand[j])
              /\ { hand[i] : i \in 1..Len(hand) } =
                    IF resp'.isCorrect THEN before \cup {resp'.cardId} ELSE before
              /\ resp'.isCorrect => resp'.cardId \notin before
              /\ resp'.cardsLostCount =
                    getLostRoundsCount(game_cards, g)
                       + (IF resp'.isCorrect THEN 0 ELSE 1)
              /\ Cardinality({ row \in RowsOf(game_cards', g) :
                                 row.status \in {"lost", "discarded"} }) =
                    Cardinality(LostOrDiscardedRows(g))
                       + (IF resp'.isCorrect THEN 0 ELSE 1) ]_vars

\* A wrong guess answered after a correct one: the hand of four is returned
\* again and the lost-count is 1.
C24_Witness ==
    /\ resp.op = "guess" /\ resp.status = 200 /\ ~resp.isCorrect
    /\ Len(resp.cardList) = 4
    /\ resp.cardsLostCount = 1
    /\ Cardinality(WonRows(resp.gameId)) = 1

C26_CollectedCount ==
    [][ \A g \in DOMAIN games :
          games'[g] # games[g] =>
             LET won == Cardinality({ row \in RowsOf(game_cards', g) :
                                        row.status = "won" })
             IN  /\ games'[g].cards_collected =
                       Cardinality(HeldCards(game_cards', g))
                 /\ games[g].outcome = "" =>
                       /\ games'[g].outcome = "Won" =>
                             games'[g].cards_collected = 6
                       /\ games'[g].outcome = "Lost" =>
                             /\ games'[g].cards_collected = InitialCardCount + won
                             /\ games'[g].cards_collected \in 3..5 ]_vars

\* A game Lost on its fifth round, by a guess, with two cards won before.
C26_Witness ==
    \E g \in DOMAIN games :
       /\ games[g].outcome = "Lost" /\ games[g].end_time = 1
       /\ games[g].cards_collected = 5
       /\ Cardinality(WonRows(g)) = 2
       /\ resp.op = "guess" /\ resp.gameOutcome = "Lost"

\* C27: the demo guess decides as the guess of the full game does: for the
\* same hand, card and placement index it is answered 404 exactly when the
\* guess is, and whenever the guess is accepted it returns the same
\* correctness flag, the same revealed index and the same won card.
C27_DemoJudgeSameAsGame ==
    twin.phase = "done" =>
       /\ (resp.status = 404) <=> (twin.resp.status = 404)
       /\ twin.resp.status = 200 =>
             /\ resp.status = 200
             /\ resp.isCorrect = twin.resp.isCorrect
             /\ resp.badLuckIndex = twin.resp.badLuckIndex
             /\ resp.cardId = twin.resp.cardId

\* Both judged a tie correct: the new index equals the one card of the hand.
C27_Witness ==
    /\ twin.phase = "done"
    /\ twin.resp.op = "guess" /\ twin.resp.status = 200 /\ twin.resp.isCorrect
    /\ resp.op = "demo-guess" /\ resp.status = 200 /\ resp.isCorrect
    /\ call.hand = <<resp.badLuckIndex>>

C29_RoundsStrictlyIncrease ==
    [][ \A row \in game_cards' \ game_cards :
           row.status # "initial" =>
              \A old \in game_cards :
                 (old.game_id = row.game_id /\ old.status # "initial")
                    => old.round < row.round ]_vars

\* C30: the card a next-round request answers with is not involved in the
\* game when the answer is produced, also when a round of the game was
\* resolved between the handler's read of the involved cards and its draw.
C30_NextRoundNeedsNoLock ==
    [][ ( /\ resp'.op = "next-round" /\ resp'.status = 200
          /\ BagCardinality(reqs') < BagCardinality(reqs) )
        => resp'.cardId \notin getInvolvedCardIds(game_cards', resp'.gameId)
      ]_vars

\* C31: in the page of a full game the round number starts at 1: the guess
\* or the timeout of the k-th card getNextRoundCard delivered is submitted
\* with round number k.
C31_RoundNumberStartsAtOne ==
    call.op \in {"guess", "lose-round"} =>
      \E k \in 1..Len(client.delivered) :
        /\ client.delivered[k] = call.cardId
        /\ call.round = k

\* The step in which handleGuess sends a guess for the current card.
GuessSubmitted ==
    /\ client.proposedPlacementIndex = NoIndex
    /\ client'.proposedPlacementIndex # NoIndex

\* The page has received the answer to a guess for the card: the last answer
\* was that one, or the event the answer reports is in the game's log.
GuessWasAnswered(cardId) ==
    \/ /\ resp.op \in {"guess", "demo-guess"}
       /\ resp.status = 200
       /\ resp.cardId = cardId
    \/ \E row \in game_cards :
         /\ row.game_id = client.gameId
         /\ row.card_id = cardId
         /\ row.status \in {"won", "lost"}

\* C32: the page submits at most one guess per round card, in a full game
\* and in a demo: no guess is sent for a card whose guess has been answered.
C32_OneGuessPerCard ==
    [][ GuessSubmitted => ~GuessWasAnswered(client.currentRoundCard) ]_vars

\* The step in which handleTimeout reports the current card to the server.
TimeoutSubmitted ==
    \E req \in BagToSet(client'.pending) :
      /\ req.op = "lose-round"
      /\ CopiesIn(req, client'.pending) > CopiesIn(req, client.pending)

\* handleTimeout has run for the card: its request waits for the answer, or
\* the event it records is in the game's log.
TimeoutWasReported(cardId) ==
    \/ \E req \in BagToSet(client.pending) :
         req.op = "lose-round" /\ req.cardId = cardId
    \/ \E row \in game_cards :
         /\ row.game_id = client.gameId
         /\ row.card_id = cardId
         /\ row.status = "discarded"

\* A guess for the card was submitted and has not failed: it waits for its
\* answer or it was recorded.
GuessStands(cardId) ==
    \/ \E req \in BagToSet(client.pending) :
         req.op = "guess" /\ req.cardId = cardId
    \/ \E row \in game_cards :
         /\ row.game_id = client.gameId
         /\ row.card_id = cardId
         /\ row.status \in {"won", "lost"}

\* C33: in the page of a full game the timeout and the guess never both
\* resolve one round card: no guess is submitted for a card whose timeout
\* was reported, and no timeout is reported for a card whose guess was
\* submitted and did not fail.
C33_TimeoutOrGuess ==
    [][ /\ GuessSubmitted => ~TimeoutWasReported(client.currentRoundCard)
        /\ TimeoutSubmitted => ~GuessStands(client.currentRoundCard)
      ]_vars

\* A round of the full game on the page is resolved and the game goes on: the
\* card's event is in the log, no call waits for its answer, and neither the
\* server nor the page has ended the game.
RoundResolved ==
    /\ ~client.isDemo
    /\ client.currentRoundCard # 0
    /\ client.pending = EmptyBag
    /\ Rendered = "game"
    /\ \E row \in game_cards :
         /\ row.game_id = client.gameId
         /\ row.card_id = client.currentRoundCard
         /\ row.status # "initial"
    /\ games[client.gameId].outcome = ""

\* C34: after a round of a full game is resolved without ending the game,
\* the page offers the next round.
C34_NextRoundAvailable ==
    RoundResolved => NextRoundButton \/ StartFirstRoundButton

\* C35: the page of a full game and the server agree on the end of the game:
\* an outcome the page shows is the outcome of the Game record, a game the
\* server ended is shown as ended once every call is answered, and the
\* page's lostRoundsCount reaches 3 only if the server's lost-count has.
C35_ClientServerAgree ==
    ~client.isDemo =>
      /\ Rendered = "summary" =>
           games[client.gameId].outcome = client.gameOutcome
      /\ (games[client.gameId].outcome # "" /\ client.pending = EmptyBag) =>
           client.gameOutcome # "null"
      /\ client.lostRoundsCount >= ClientLoseThreshold =>
           getLostRoundsCount(game_cards, client.gameId) >= LoseThreshold

\* The outcome the thresholds give for the counts of a game's log.
OutcomeOfLog(gameId) ==
    LET won  == getWonCardsCount(game_cards, gameId)
        lost == getLostRoundsCount(game_cards, gameId)
    IN  IF won >= WinThreshold THEN "Won"
        ELSE IF lost >= LoseThreshold THEN "Lost"
        ELSE ""

\* C37: after every completed operation of a sequential run the outcome of
\* each Game record is the one its event log gives: Won exactly when the
\* won-count is at least 3, Lost exactly when the won-count is below 3 and
\* the lost-count at least 3, in progress otherwise.
C37_OutcomeMatchesLog ==
    \A gameId \in DOMAIN games : games[gameId].outcome = OutcomeOfLog(gameId)

\* The request of the step comes from a user who does not own its game.
ByNonOwner ==
    /\ call'.gameId \in DOMAIN games
    /\ call'.userId # games[call'.gameId].user_id

\* C38: a game is changed only by its owner: a guess or a lose-round of
\* another user appends no event and changes no outcome, and a next-round of
\* another user returns no card.
C38_OnlyOwnerChangesGame ==
    [][ ByNonOwner =>
          /\ call'.op \in {"guess", "lose-round"} =>
               game_cards' = game_cards /\ games' = games
          /\ call'.op = "next-round" => resp'.newCard = NoCard
      ]_vars

\* A start request whose catch block is about to run ROLLBACK.
RollingBack(req) == req.op = "start" /\ req.pc = "catch"

\* C36: transactions on the shared connection are isolated per request: a
\* step after which no handler is suspended leaves every game with its
\* InitialCardCount initial events (each startGame ended all-or-nothing), and
\* a step undoes only rows written by the startGame that rolls back: initial
\* rows and the header of its game.
C36_TransactionsIsolated ==
    [][ /\ reqs' = EmptyBag =>
             \A gameId \in DOMAIN games' :
               Cardinality({ row \in game_cards' :
                               /\ row.game_id = gameId
                               /\ row.status = "initial" }) = InitialCardCount
        /\ \A row \in game_cards \ game_cards' :
             /\ row.status = "initial"
             /\ \E req \in BagToSet(reqs) :
                  RollingBack(req) /\ req.gameId = row.game_id
        /\ \A gameId \in DOMAIN games \ DOMAIN games' :
             \E req \in BagToSet(reqs) :
               RollingBack(req) /\ req.gameId = gameId
      ]_vars

====
